---- MODULE Spec2Model ----
(***************************************************************************)
(* redis_structures: client-side container adapters over a Redis store.    *)
(*                                                                         *)
(* The store is modelled command by command: every Redis command is one    *)
(* atomic step, a pipeline created with transaction=False is executed one  *)
(* command per step (other clients may run in between), a pipeline created *)
(* with transaction=True is executed in a single step (MULTI/EXEC).        *)
(*                                                                         *)
(* Texts (store keys, stored bytes) are sequences of one-character         *)
(* strings.  A Python value is a record [t, s]: its type and its text      *)
(* (str(value)); the value None is [t |-> "none"], a raised exception is    *)
(* [t |-> "error"].                                                         *)
(***************************************************************************)
EXTENDS Integers, Sequences, FiniteSets, TLC

VARIABLES
    serialized,  \* BaseRedisStructure.serialized (False, or True with json)
    kv,          \* store: string keys -> stored bytes
    bucket,      \* store: the hash at RedisDict._bucket_key, field -> integer
    lists,       \* store: list keys -> sequence of stored bytes
    pc,          \* per client: position inside the running call
    loc,         \* per client: the locals of the running call
    pipe,        \* per client: commands queued on the call's pipeline
    results,     \* per client: results returned by the executed commands
    nops,        \* per client: number of calls started
    quota,       \* per client: number of calls it may start
    cap,         \* what the callers do: the longest list an insert is started
                 \* on, the values they insert
    hist,        \* the list call that returned last
    hash,        \* store: the hash of a RedisHash, field -> stored bytes
    sset,        \* store: the set of a RedisSet, its stored members
    tset,        \* store: the set of a second RedisSet
    zset,        \* store: the sorted set of a RedisSortedSet, member -> score
    reversed,    \* RedisSortedSet.reversed
    walk,        \* the cursor pass in progress or finished last
    obs          \* the call on a hash, set or sorted set that returned last

\* the state of the hash, set and sorted-set adapters and of their callers
adapters == <<hash, sset, tset, zset, reversed, walk, obs>>

vars == <<serialized, kv, bucket, lists, pc, loc, pipe, results, nops, quota,
          cap, hist, adapters>>

----------------------------------------------------------------------------
(* Bounds of the model *)

\* calls the client may start in the single-client Counted-Dict runs
MaxOps == 3
\* calls each of the two clients may start in the concurrent runs
MaxConcOps == 1
\* entries of a mapping passed to update()
MaxData == 2
\* longest list of the single-client list runs
MaxLen == 4
\* longest list of the runs with store failures
MaxFailLen == 3
\* longest list of the two-client list runs
MaxConcLen == 2
\* list calls two concurrent clients start altogether
MaxConcCalls == 2
\* slots one SCAN of clear() visits; the source asks for 1000, the model
\* scales the page down so that a pass takes several scans
ScanPage == 2
\* highest score callers give a member of a sorted set
MaxScore == 3
\* elements one LRANGE of reverse() reads; the source reads 1000, the model
\* scales the page down so that lists of several pages are reached
PageSize == 2

Clients == {1, 2}

----------------------------------------------------------------------------
(* Python values and texts *)

Q == "\""
Digits == {"0", "1", "2", "3", "4", "5", "6", "7", "8", "9"}

PyStr(s) == [t |-> "str", s |-> s]
PyInt(s) == [t |-> "int", s |-> s]
None == [t |-> "none", s |-> <<>>]
Error == [t |-> "error", s |-> <<>>]

EmptyFn == [x \in {} |-> 0]
Put(f, k, v) == [x \in (DOMAIN f) \cup {k} |-> IF x = k THEN v ELSE f[x]]
Drop(f, K) == [x \in (DOMAIN f) \ K |-> f[x]]

IsDigits(w) ==
    /\ Len(w) > 0
    /\ \A i \in 1..Len(w) : w[i] \in Digits
    /\ (Len(w) = 1 \/ w[1] # "0")

\* str(n) of an integer
RECURSIVE IntText(_)
IntText(n) ==
    LET digit(k) == <<"0", "1", "2", "3", "4", "5", "6", "7", "8", "9">>[k + 1]
    IN  IF n < 0 THEN <<"-">> \o IntText(-n)
        ELSE IF n < 10 THEN <<digit(n)>>
        ELSE IntText(n \div 10) \o <<digit(n % 10)>>

\* the bytes redis-py sends for a Python value (str(value).encode())
Encode(v) == IF v.t = "none" THEN <<"N", "o", "n", "e">> ELSE v.s

\* json.dumps of an int or of a str without characters that need escaping
json_dumps(v) ==
    IF v.t = "int" THEN PyStr(v.s) ELSE PyStr(<<Q>> \o v.s \o <<Q>>)

\* the text of an integer, with its sign
IsInt(w) == IsDigits(w) \/ (Len(w) > 1 /\ w[1] = "-" /\ IsDigits(Tail(w)))

\* json.loads: ValueError on anything that is not a JSON document
json_loads(w) ==
    IF IsInt(w) THEN PyInt(w)
    ELSE IF Len(w) >= 2 /\ w[1] = Q /\ w[Len(w)] = Q
              /\ \A i \in 2..(Len(w) - 1) : w[i] # Q
         THEN PyStr(SubSeq(w, 2, Len(w) - 1))
         ELSE Error

\* BaseRedisStructure._decode: bytes -> str
_decode(w) == PyStr(w)

\* BaseRedisStructure._dumps
_dumps(ser, obj) == IF ~ser THEN obj ELSE json_dumps(obj)

\* a reply of the store: nil, bytes, an integer, a boolean, a list of bytes
\* or an error
Rep(t, s, n) == [t |-> t, s |-> s, n |-> n]
Nil == Rep("nil", <<>>, 0)
Bytes(w) == Rep("bytes", w, 0)
IntRep(n) == Rep("int", <<>>, n)
BoolRep(b) == Rep("bool", <<>>, IF b THEN 1 ELSE 0)
ListRep(ws) == Rep("list", ws, 0)
ErrRep == Rep("error", <<>>, 0)

\* BaseRedisStructure._loads of a nil or bytes reply
_loads(ser, reply) ==
    IF reply.t = "nil" THEN None
    ELSE IF ~ser THEN _decode(reply.s)
    ELSE json_loads(reply.s)

----------------------------------------------------------------------------
(* Key addressing *)

\* RedisDict("d", prefix="rs:dict").key_prefix
dict_key_prefix == <<"r", "s", ":", "d", "i", "c", "t", ":", "d">>

\* RedisMap.get_key: "{}:{}".format(key_prefix, key)
get_key(key) == dict_key_prefix \o <<":">> \o key.s

\* element keys a caller may use: the str "a", the str "1" and the int 1
PyKeys == {PyStr(<<"a">>), PyStr(<<"1">>), PyInt(<<"1">>)}
\* the value written
DictValues == {PyStr(<<"x">>)}

\* ordered mappings {k1: v1, ...} with distinct Python keys
RECURSIVE MappingsOfLen(_)
MappingsOfLen(n) ==
    IF n = 0 THEN {<<>>}
    ELSE { Append(m, [k |-> k, v |-> v]) :
             m \in MappingsOfLen(n - 1), k \in PyKeys, v \in DictValues }

DistinctKeys(m) == \A i, j \in 1..Len(m) : i # j => m[i].k # m[j].k

Mappings ==
    { m \in UNION { MappingsOfLen(n) : n \in 0..MaxData } : DistinctKeys(m) }

----------------------------------------------------------------------------
(* The store: one command *)

Cmd(name, key, arg, aux, n) ==
    [cmd |-> name, key |-> key, arg |-> arg, aux |-> aux, n |-> n]

Store == [kv |-> kv, bucket |-> bucket, lists |-> lists]

ListAt(st, key) == IF key \in DOMAIN st.lists THEN st.lists[key] ELSE <<>>

\* a list key holding no element does not exist
WithList(st, key, l) ==
    [st EXCEPT !.lists = IF l = <<>> THEN Drop(st.lists, {key})
                         ELSE Put(st.lists, key, l)]

\* Redis list index: 0-based, negative counts from the tail; 0 = out of range
Pos(l, i) ==
    LET idx == IF i < 0 THEN Len(l) + i ELSE i
    IN  IF idx < 0 \/ idx >= Len(l) THEN 0 ELSE idx + 1

\* position of the first element equal to w, 0 when there is none
RECURSIVE FirstPos(_, _, _)
FirstPos(l, w, from) ==
    IF from > Len(l) THEN 0
    ELSE IF l[from] = w THEN from ELSE FirstPos(l, w, from + 1)

\* the elements of l that differ from w, in order
Without(l, w) == SelectSeq(l, LAMBDA x : x # w)

\* LRANGE window: the normalised start and stop (1-based, empty if from > to)
RangeOf(l, start, stop) ==
    LET s0 == IF start < 0 THEN Len(l) + start ELSE start
        e0 == IF stop < 0 THEN Len(l) + stop ELSE stop
        s1 == IF s0 < 0 THEN 0 ELSE s0
        e1 == IF e0 >= Len(l) THEN Len(l) - 1 ELSE e0
    IN  IF s1 > e0 \/ s1 >= Len(l) THEN <<>> ELSE SubSeq(l, s1 + 1, e1 + 1)

\* an element key of another dict, RedisDict("e", prefix="rs:dict")
foreign_key == <<"r", "s", ":", "d", "i", "c", "t", ":", "e", ":", "a">>

\* a key no client of the model writes
unused_key == <<"r", "s", ":", "d", "i", "c", "t", ":", "e", ":", "b">>

\* the table SCAN walks: one slot per key the store may hold, in the order of
\* the walk; a slot whose key is absent is empty
Slots ==
    <<get_key(PyStr(<<"a">>)), foreign_key, get_key(PyStr(<<"1">>)),
      unused_key>>

\* MATCH "<prefix>:*"
Matches(key, prefix) ==
    /\ Len(key) > Len(prefix)
    /\ SubSeq(key, 1, Len(prefix) + 1) = prefix \o <<":">>

\* SCAN cursor MATCH prefix:* COUNT n on the keys `present`: the keys that
\* match in the next n slots, and the next cursor, 0 after the last slot
Scan(present, cursor, prefix, n) ==
    LET to == IF cursor + n >= Len(Slots) THEN Len(Slots) ELSE cursor + n
        page == SelectSeq(SubSeq(Slots, cursor + 1, to),
                          LAMBDA k : k \in present /\ Matches(k, prefix))
    IN  Rep("scan", page, IF to = Len(Slots) THEN 0 ELSE to)

\* one command executed on store st: the store afterwards and the reply
Exec(st, cm) ==
    LET l == ListAt(st, cm.key)
    IN
    CASE cm.cmd = "EXISTS" ->
           [st |-> st,
            reply |-> BoolRep(cm.key \in DOMAIN st.kv
                              \/ cm.key \in DOMAIN st.lists)]
      [] cm.cmd = "GET" ->
           [st |-> st,
            reply |-> IF cm.key \in DOMAIN st.kv THEN Bytes(st.kv[cm.key])
                      ELSE Nil]
      [] cm.cmd = "SET" ->
           [st |-> [st EXCEPT !.kv = Put(st.kv, cm.key, cm.arg),
                              !.lists = Drop(st.lists, {cm.key})],
            reply |-> BoolRep(TRUE)]
      [] cm.cmd = "PSETEX" ->
           IF cm.n <= 0 THEN [st |-> st, reply |-> ErrRep]
           ELSE [st |-> [st EXCEPT !.kv = Put(st.kv, cm.key, cm.arg),
                                   !.lists = Drop(st.lists, {cm.key})],
                 reply |-> BoolRep(TRUE)]
      [] cm.cmd = "MSET" ->
           [st |-> [st EXCEPT !.kv =
                      [x \in (DOMAIN st.kv) \cup (DOMAIN cm.arg) |->
                          IF x \in DOMAIN cm.arg THEN cm.arg[x] ELSE st.kv[x]],
                              !.lists = Drop(st.lists, DOMAIN cm.arg)],
            reply |-> BoolRep(TRUE)]
      [] cm.cmd = "DEL" ->
           [st |-> [st EXCEPT !.kv = Drop(st.kv, {cm.key}),
                              !.lists = Drop(st.lists, {cm.key})],
            reply |-> IntRep(IF cm.key \in DOMAIN st.kv
                                \/ cm.key \in DOMAIN st.lists THEN 1 ELSE 0)]
      [] cm.cmd = "DELETE" ->
           [st |-> [st EXCEPT !.kv = Drop(st.kv, {cm.arg[i] :
                                                    i \in 1..Len(cm.arg)})],
            reply |-> IntRep(Cardinality({cm.arg[i] : i \in 1..Len(cm.arg)}
                                         \cap DOMAIN st.kv))]
      [] cm.cmd = "SCAN" ->
           [st |-> st, reply |-> Scan(DOMAIN st.kv, cm.n, cm.arg, cm.aux)]
      [] cm.cmd = "HDEL" ->
           [st |-> [st EXCEPT !.bucket = Drop(st.bucket, {cm.key})],
            reply |-> IntRep(IF cm.key \in DOMAIN st.bucket THEN 1 ELSE 0)]
      [] cm.cmd = "HINCRBY" ->
           LET new == (IF cm.key \in DOMAIN st.bucket
                       THEN st.bucket[cm.key] ELSE 0) + cm.n
           IN  [st |-> [st EXCEPT !.bucket = Put(st.bucket, cm.key, new)],
                reply |-> IntRep(new)]
      [] cm.cmd = "LINDEX" ->
           [st |-> st,
            reply |-> IF Pos(l, cm.n) = 0 THEN Nil ELSE Bytes(l[Pos(l, cm.n)])]
      [] cm.cmd = "LSET" ->
           IF Pos(l, cm.n) = 0
           THEN [st |-> st, reply |-> ErrRep]
           ELSE [st |-> WithList(st, cm.key,
                                 [l EXCEPT ![Pos(l, cm.n)] = cm.arg]),
                 reply |-> BoolRep(TRUE)]
      [] cm.cmd = "LINSERT" ->
           LET p == FirstPos(l, cm.aux, 1)
           IN  IF l = <<>> THEN [st |-> st, reply |-> IntRep(0)]
               ELSE IF p = 0 THEN [st |-> st, reply |-> IntRep(-1)]
               ELSE [st |-> WithList(st, cm.key,
                                SubSeq(l, 1, p - 1) \o <<cm.arg>>
                                    \o SubSeq(l, p, Len(l))),
                     reply |-> IntRep(Len(l) + 1)]
      [] cm.cmd = "LREM" ->
           [st |-> WithList(st, cm.key, Without(l, cm.arg)),
            reply |-> IntRep(Len(l) - Len(Without(l, cm.arg)))]
      [] cm.cmd = "LRANGE" ->
           [st |-> st, reply |-> ListRep(RangeOf(l, cm.n, cm.aux))]
      [] cm.cmd = "RPUSH" ->
           [st |-> WithList(st, cm.key, l \o cm.arg),
            reply |-> IntRep(Len(l) + Len(cm.arg))]
      [] cm.cmd = "RPOP" ->
           IF l = <<>> THEN [st |-> st, reply |-> Nil]
           ELSE [st |-> WithList(st, cm.key, SubSeq(l, 1, Len(l) - 1)),
                 reply |-> Bytes(l[Len(l)])]
      [] cm.cmd = "LPOP" ->
           IF l = <<>> THEN [st |-> st, reply |-> Nil]
           ELSE [st |-> WithList(st, cm.key, Tail(l)),
                 reply |-> Bytes(Head(l))]
      [] cm.cmd = "RENAME" ->
           IF cm.key \in DOMAIN st.lists
           THEN [st |-> [st EXCEPT !.lists =
                           Put(Drop(st.lists, {cm.key}), cm.arg, l),
                                   !.kv = Drop(st.kv, {cm.arg})],
                 reply |-> BoolRep(TRUE)]
           ELSE IF cm.key \in DOMAIN st.kv
           THEN [st |-> [st EXCEPT !.kv =
                           Put(Drop(st.kv, {cm.key}), cm.arg, st.kv[cm.key]),
                                   !.lists = Drop(st.lists, {cm.arg})],
                 reply |-> BoolRep(TRUE)]
           ELSE [st |-> st, reply |-> ErrRep]

\* a batch executed without any other command in between (MULTI/EXEC)
RECURSIVE ExecAll(_, _, _)
ExecAll(st, cmds, replies) ==
    IF cmds = <<>> THEN [st |-> st, replies |-> replies]
    ELSE LET r == Exec(st, Head(cmds))
         IN  ExecAll(r.st, Tail(cmds), Append(replies, r.reply))

----------------------------------------------------------------------------
(* Pipelines *)

Pipeline(transaction, cmds) == [transaction |-> transaction, cmds |-> cmds]
NoPipe == Pipeline(FALSE, <<>>)
\* the last list call that returned: the client, the call, what it returned
\* (Error when it raised), the position it returned from, whether a store
\* failure stopped it there, and a bit that flips at every return
Call(c, op, ret, at, failed, tick) ==
    [c |-> c, op |-> op, ret |-> ret, at |-> at, failed |-> failed,
     tick |-> tick]
NoHist == Call(0, "none", None, "none", FALSE, FALSE)

\* the locals of a client: op names the call that runs or ran last, next the
\* position after pipe.execute(), alone whether no other client ran a call
\* during this one
NoLoc == [op |-> "none", next |-> "idle", alone |-> TRUE]

\* the commands one step of pipe.execute() runs: the whole batch inside
\* MULTI/EXEC, otherwise the next command only
Batch(p) == IF p.transaction THEN p.cmds ELSE <<Head(p.cmds)>>

\* pipe.execute(): runs the queued commands, collects their replies and
\* continues at loc.next once the queue is empty
pipe_execute(c) ==
    /\ pc[c] = "execute"
    /\ pipe[c].cmds # <<>>
    /\ LET b == Batch(pipe[c])
           r == ExecAll(Store, b, <<>>)
           rest == SubSeq(pipe[c].cmds, Len(b) + 1, Len(pipe[c].cmds))
       IN  /\ kv' = r.st.kv
           /\ bucket' = r.st.bucket
           /\ lists' = r.st.lists
           /\ results' = [results EXCEPT ![c] =
                             IF rest = <<>> /\ loc[c].next = "idle"
                             THEN <<>> ELSE @ \o r.replies]
           /\ pipe' = [pipe EXCEPT ![c] = [@ EXCEPT !.cmds = rest]]
           /\ pc' = [pc EXCEPT ![c] = IF rest = <<>> THEN loc[c].next ELSE @]
    /\ UNCHANGED <<adapters, serialized, quota, cap, loc, nops, hist>>

\* no cursor pass yet
NoWalk == [kind |-> "none", op |-> "none", count |-> 0, cursor |-> 0,
           sent |-> 0, out |-> <<>>, scans |-> 0, empty |-> 0, done |-> FALSE]

\* no call on a hash, set or sorted set yet
NoObs == [op |-> "none", m |-> None, a |-> None, b |-> None, rev |-> None,
          ret |-> None, list |-> <<>>]

\* the hash, set and sorted-set adapters unused: their keys are absent
InitAdapters ==
    /\ hash = EmptyFn
    /\ sset = {}
    /\ tset = {}
    /\ zset = EmptyFn
    /\ reversed = FALSE
    /\ walk = NoWalk
    /\ obs = NoObs

----------------------------------------------------------------------------
(* RedisDict *)

\* RedisMap.__contains__: EXISTS on the element key, run at once
contains(key) == Exec(Store, Cmd("EXISTS", get_key(key), <<>>, <<>>, 0)).reply.n = 1

\* RedisDict.size: HGET of the bucket field, 0 when absent
size ==
    IF dict_key_prefix \in DOMAIN bucket THEN bucket[dict_key_prefix] ELSE 0

\* the count kept in a field named by self.prefix
HIncrBy_prefix_field(n) ==
    Cmd("HINCRBY", SubSeq(dict_key_prefix, 1, 7), <<>>, <<>>, n)

\* hincrby(self._bucket_key, self.key_prefix, n)
HIncrBy(n) == Cmd("HINCRBY", dict_key_prefix, <<>>, <<>>, n)

Begin(c, l, p) ==
    /\ pc[c] = "idle"
    /\ nops[c] < quota[c]
    /\ nops' = [nops EXCEPT ![c] = @ + 1]
    /\ loc' = [d \in Clients |->
                  IF d = c
                  THEN [l EXCEPT !.alone = \A e \in Clients \ {c} : pc[e] = "idle"]
                  ELSE IF pc[d] # "idle" THEN [loc[d] EXCEPT !.alone = FALSE]
                  ELSE loc[d]]
    /\ pipe' = [pipe EXCEPT ![c] = p]
    /\ results' = [results EXCEPT ![c] = <<>>]

\* RedisDict.__setitem__ with the existence test negated
dict_setitem_negated(c, key, value) ==
    /\ Begin(c, [op |-> "setitem", next |-> "idle", alone |-> TRUE,
                  key |-> get_key(key), found |-> contains(key)],
             Pipeline(FALSE,
                 <<Cmd("SET", get_key(key),
                       Encode(_dumps(serialized, value)), <<>>, 0)>>
                 \o (IF contains(key) THEN <<HIncrBy(1)>> ELSE <<>>)))
    /\ pc' = [pc EXCEPT ![c] = "execute"]
    /\ UNCHANGED <<adapters, serialized, quota, cap, kv, bucket, lists, hist>>

\* RedisDict.__setitem__ up to pipe.execute()
dict_setitem(c, key, value) ==
    /\ Begin(c, [op |-> "setitem", next |-> "idle", alone |-> TRUE,
                  key |-> get_key(key), found |-> contains(key)],
             Pipeline(FALSE,
                 <<Cmd("SET", get_key(key),
                       Encode(_dumps(serialized, value)), <<>>, 0)>>
                 \o (IF ~contains(key) THEN <<HIncrBy(1)>> ELSE <<>>)))
    /\ pc' = [pc EXCEPT ![c] = "execute"]
    /\ UNCHANGED <<adapters, serialized, quota, cap, kv, bucket, lists, hist>>

\* RedisDict.__delitem__ up to pipe.execute()
dict_delitem(c, key) ==
    /\ Begin(c, [op |-> "delitem", next |-> "idle", alone |-> TRUE,
                  key |-> get_key(key), found |-> contains(key)],
             Pipeline(FALSE,
                 <<Cmd("DEL", get_key(key), <<>>, <<>>, 0)>>
                 \o (IF contains(key) THEN <<HIncrBy(-1)>> ELSE <<>>)))
    /\ pc' = [pc EXCEPT ![c] = "execute"]
    /\ UNCHANGED <<adapters, serialized, quota, cap, kv, bucket, lists, hist>>

\* RedisDict.update with empty data: nothing is sent
dict_update_empty(c) ==
    /\ pc[c] = "idle"
    /\ nops[c] < quota[c]
    /\ nops' = [nops EXCEPT ![c] = @ + 1]
    /\ UNCHANGED <<adapters, serialized, quota, cap, kv, bucket, lists, pc, loc, pipe, results,
                   hist>>

\* RedisDict.update, first batch: one EXISTS per key of data
dict_update_exists(c, data) ==
    /\ data # <<>>
    /\ Begin(c, [op |-> "update", next |-> "update_mset", alone |-> TRUE,
                  data |-> data],
             Pipeline(FALSE,
                 [i \in 1..Len(data) |->
                     Cmd("EXISTS", get_key(data[i].k), <<>>, <<>>, 0)]))
    /\ pc' = [pc EXCEPT ![c] = "execute"]
    /\ UNCHANGED <<adapters, serialized, quota, cap, kv, bucket, lists, hist>>

\* {get_key(key): _dumps(value) for key, value in data.items()}: a later
\* entry replaces an earlier one that formats to the same store key
Formatted(ser, data) ==
    [x \in {get_key(data[i].k) : i \in 1..Len(data)} |->
        LET last == CHOOSE i \in 1..Len(data) :
                        /\ get_key(data[i].k) = x
                        /\ \A j \in (i + 1)..Len(data) : get_key(data[j].k) # x
        IN  Encode(_dumps(ser, data[last].v))]

\* exists.count(True)
CountTrue(replies) == Cardinality({i \in 1..Len(replies) : replies[i].n = 1})

\* RedisDict.update, second batch, with the operands of the adjustment swapped
dict_update_mset_swapped(c) ==
    /\ pc[c] = "update_mset"
    /\ LET exists == CountTrue(results[c])
           data == Formatted(serialized, loc[c].data)
       IN  pipe' = [pipe EXCEPT ![c] =
                       Pipeline(FALSE,
                           <<Cmd("MSET", <<>>, data, <<>>, 0),
                             HIncrBy(exists - Cardinality(DOMAIN data))>>)]
    /\ results' = [results EXCEPT ![c] = <<>>]
    /\ loc' = [loc EXCEPT ![c].next = "idle"]
    /\ pc' = [pc EXCEPT ![c] = "execute"]
    /\ UNCHANGED <<adapters, serialized, quota, cap, kv, bucket, lists, nops, hist>>

\* RedisDict.update, second batch: MSET and the counter adjustment
dict_update_mset(c) ==
    /\ pc[c] = "update_mset"
    /\ LET exists == CountTrue(results[c])
           data == Formatted(serialized, loc[c].data)
       IN  pipe' = [pipe EXCEPT ![c] =
                       Pipeline(FALSE,
                           <<Cmd("MSET", <<>>, data, <<>>, 0),
                             HIncrBy(Cardinality(DOMAIN data) - exists)>>)]
    /\ results' = [results EXCEPT ![c] = <<>>]
    /\ loc' = [loc EXCEPT ![c].next = "idle"]
    /\ pc' = [pc EXCEPT ![c] = "execute"]
    /\ UNCHANGED <<adapters, serialized, quota, cap, kv, bucket, lists, nops, hist>>

\* RedisMap.scan: the cursor and the keys the client returns
scan(prefix, n, cursor) ==
    Exec(Store, Cmd("SCAN", <<>>, prefix, n, cursor)).reply

\* count=1000 of clear()
clear_count == ScanPage

\* RedisDict.clear is called: cursor = '0' and an empty pipeline
dict_clear(c) ==
    /\ Begin(c, [op |-> "clear", next |-> "idle", alone |-> TRUE,
                  cursor |-> 0, sent |-> 0, scans |-> 0],
             Pipeline(FALSE, <<>>))
    /\ pc' = [pc EXCEPT ![c] = "clear_scan"]
    /\ UNCHANGED <<adapters, serialized, quota, cap, kv, bucket, lists, hist>>

\* RedisDict.clear leaving its loop at the first page without keys
dict_clear_scan_until_empty(c) ==
    /\ pc[c] = "clear_scan"
    /\ LET r == scan(dict_key_prefix, clear_count, loc[c].cursor)
           last == r.n = 0 \/ r.s = <<>>
           dels == IF r.s = <<>> THEN <<>>
                   ELSE <<Cmd("DELETE", <<>>, r.s, <<>>, 0)>>
           hdel == IF ~last THEN <<>>
                   ELSE <<Cmd("HDEL", dict_key_prefix, <<>>, <<>>, 0)>>
       IN  /\ pipe' = [pipe EXCEPT ![c].cmds = @ \o dels \o hdel]
           /\ loc' = [loc EXCEPT ![c].cursor = r.n, ![c].scans = @ + 1,
                                 ![c].sent = loc[c].cursor]
           /\ pc' = [pc EXCEPT ![c] = IF ~last THEN "clear_scan"
                                      ELSE "execute"]
    /\ UNCHANGED <<adapters, serialized, quota, cap, kv, bucket, lists, results, nops,
                   hist>>

\* RedisDict.clear, one turn of the loop: scan, queue the DEL of a page that
\* has keys; after the turn that returns cursor 0 the HDEL is queued and
\* pipe.execute() follows
dict_clear_scan(c) ==
    /\ pc[c] = "clear_scan"
    /\ LET r == scan(dict_key_prefix, clear_count, loc[c].cursor)
           dels == IF r.s = <<>> THEN <<>>
                   ELSE <<Cmd("DELETE", <<>>, r.s, <<>>, 0)>>
           hdel == IF r.n # 0 THEN <<>>
                   ELSE <<Cmd("HDEL", dict_key_prefix, <<>>, <<>>, 0)>>
       IN  /\ pipe' = [pipe EXCEPT ![c].cmds = @ \o dels \o hdel]
           /\ loc' = [loc EXCEPT ![c].cursor = r.n, ![c].scans = @ + 1,
                                 ![c].sent = loc[c].cursor]
           /\ pc' = [pc EXCEPT ![c] = IF r.n # 0 THEN "clear_scan"
                                      ELSE "execute"]
    /\ UNCHANGED <<adapters, serialized, quota, cap, kv, bucket, lists, results, nops,
                   hist>>

\* the methods of RedisDict that raise AttributeError
Unsupported == {"pttl", "ttl", "set_ttl", "set_pttl", "expire_at", "setex"}

\* times to live a caller passes; 0 is the default of psetex
Ttls == {0, 1}

\* a reply of the client as the Python value a method returns
Returned(reply) ==
    IF reply.t = "error" THEN Error
    ELSE IF reply.t = "bool" THEN [t |-> "bool", s |-> IntText(reply.n)]
    ELSE IF reply.t = "int" THEN PyInt(IntText(reply.n))
    ELSE None

\* a dict method that runs in one step returns ret from position at
dict_return(c, op, ret, at) ==
    /\ pc[c] = "idle"
    /\ nops[c] < quota[c]
    /\ nops' = [nops EXCEPT ![c] = @ + 1]
    /\ hist' = Call(c, op, ret, at, FALSE, ~hist.tick)
    /\ UNCHANGED <<adapters, serialized, quota, cap, lists, pc, loc, pipe, results>>

\* RedisDict.pttl, ttl, set_ttl, set_pttl, expire_at, setex: raise
\* AttributeError before any command is sent
dict_unsupported(c, op) ==
    /\ op \in Unsupported
    /\ dict_return(c, op, Error, "raise")
    /\ UNCHANGED <<kv, bucket>>

\* RedisDict.psetex is RedisMap.psetex: self._client.psetex(get_key(key), ttl,
\* _dumps(value)); redis-py raises when the store refuses the time to live
dict_psetex(c, key, value, ttl) ==
    LET r == Exec(Store, Cmd("PSETEX", get_key(key),
                             Encode(_dumps(serialized, value)), <<>>, ttl))
    IN  /\ dict_return(c, "psetex", Returned(r.reply), "client")
        /\ kv' = r.st.kv
        /\ bucket' = r.st.bucket

----------------------------------------------------------------------------
(* Counted-Dict specifications *)

InitStore ==
    /\ serialized \in BOOLEAN
    /\ InitAdapters
    /\ kv = EmptyFn
    /\ bucket = EmptyFn
    /\ lists = EmptyFn
    /\ pc = [c \in Clients |-> "idle"]
    /\ loc = [c \in Clients |-> NoLoc]
    /\ pipe = [c \in Clients |-> NoPipe]
    /\ results = [c \in Clients |-> <<>>]
    /\ nops = [c \in Clients |-> 0]
    /\ cap = [len |-> 0, values |-> 0]
    /\ hist = NoHist

\* a cleared dict used by client 1 only
InitDict ==
    /\ InitStore
    /\ quota = [c \in Clients |-> IF c = 1 THEN MaxOps ELSE 0]

\* a cleared dict shared by two clients
InitDictConc ==
    /\ InitStore
    /\ quota = [c \in Clients |-> MaxConcOps]

DictNext ==
    \/ \E c \in Clients, key \in PyKeys, value \in DictValues :
           dict_setitem(c, key, value)
    \/ \E c \in Clients, key \in PyKeys : dict_delitem(c, key)
    \/ \E c \in Clients : dict_update_empty(c)
    \/ \E c \in Clients, data \in Mappings : dict_update_exists(c, data)
    \/ \E c \in Clients : dict_update_mset(c)
    \/ \E c \in Clients : pipe_execute(c)

SpecDict == InitDict /\ [][DictNext]_vars

SpecDictConc == InitDictConc /\ [][DictNext]_vars

\* a store that holds the element key of another dict or not
InitDictScan ==
    /\ serialized \in BOOLEAN
    /\ InitAdapters
    /\ kv \in {EmptyFn, Put(EmptyFn, foreign_key, <<"x">>)}
    /\ bucket = EmptyFn
    /\ lists = EmptyFn
    /\ pc = [c \in Clients |-> "idle"]
    /\ loc = [c \in Clients |-> NoLoc]
    /\ pipe = [c \in Clients |-> NoPipe]
    /\ results = [c \in Clients |-> <<>>]
    /\ nops = [c \in Clients |-> 0]
    /\ cap = [len |-> 0, values |-> 0]
    /\ hist = NoHist
    /\ quota = [c \in Clients |-> IF c = 1 THEN MaxOps ELSE 0]

\* the dict with clear()
DictClearNext ==
    \/ DictNext
    \/ \E c \in Clients : dict_clear(c)
    \/ \E c \in Clients : dict_clear_scan(c)

SpecDictClear == InitDictScan /\ [][DictClearNext]_vars

\* the dict with its time-to-live methods
DictTtlNext ==
    \/ DictNext
    \/ \E c \in Clients, op \in Unsupported : dict_unsupported(c, op)
    \/ \E c \in Clients, key \in PyKeys, value \in DictValues, ttl \in Ttls :
           dict_psetex(c, key, value, ttl)

SpecDictTtl == InitDict /\ [][DictTtlNext]_vars

\* element keys present under the dict's Key Prefix
Present ==
    {k \in DOMAIN kv : /\ Len(k) > Len(dict_key_prefix)
                       /\ SubSeq(k, 1, Len(dict_key_prefix) + 1)
                              = dict_key_prefix \o <<":">>}

AllIdle == \A c \in Clients : pc[c] = "idle"

----------------------------------------------------------------------------
(* Counted-Dict properties *)

\* C1: with a single client, whenever no call is running len() equals the
\* number of element keys present under the dict's Key Prefix.
C1_LenEqualsPresent == AllIdle => size = Cardinality(Present)

\* each client has run exactly one call, on a dict that was cleared before
OneCallEach == AllIdle /\ \A c \in Clients : nops[c] = 1

BothSetSameAbsentKey ==
    /\ OneCallEach
    /\ \A c \in Clients : loc[c].op = "setitem" /\ ~loc[c].found
    /\ loc[1].key = loc[2].key

\* C4: when two clients have each run one set on the same element key and
\* both existence checks found the key absent, len() is exactly one greater
\* than the number of present element keys.
C4_OvercountRace == BothSetSameAbsentKey => size = Cardinality(Present) + 1

C4_Witness == BothSetSameAbsentKey /\ Cardinality(Present) = 1 /\ size = 2

\* the store keys a mapping writes
KeysOf(data) == {get_key(data[i].k) : i \in 1..Len(data)}
NoAlias(data) == Cardinality(KeysOf(data)) = Len(data)

BothUpdateSharedKey ==
    /\ OneCallEach
    /\ \A c \in Clients : loc[c].op = "update" /\ NoAlias(loc[c].data)
    /\ KeysOf(loc[1].data) \cap KeysOf(loc[2].data) # {}

----------------------------------------------------------------------------
(* RedisList *)

\* RedisList("l", prefix="rs:list").key_prefix
list_key_prefix == <<"r", "s", ":", "l", "i", "s", "t", ":", "l">>

\* values of randint(0, 100000000) that name the temporary list of reverse()
RandInts == {7}

\* RedisList(randint(...), prefix=self.key_prefix).key_prefix
tmp_key_prefix(n) == list_key_prefix \o <<":">> \o IntText(n)

\* strings gen_rand_str returns
Sentinels == {<<"u", "1">>, <<"u", "2">>}

\* the n elements callers store (n is 1 or 2): without a serializer every
\* element is read back as a str, so the callers of an unserialized list use
\* str values
ListValues(ser, n) ==
    IF n = 1 THEN {PyStr(<<"a">>)}
    ELSE IF ser THEN {PyStr(<<"a">>), PyInt(<<"1">>)}
    ELSE {PyStr(<<"a">>), PyStr(<<"b">>)}

AllListValues == ListValues(TRUE, 2) \cup ListValues(FALSE, 2)

\* the bytes stored for a value written through _dumps
Wire(ser, v) == Encode(_dumps(ser, v))

TheList == ListAt(Store, list_key_prefix)

\* count = 1000 in reverse()
count == PageSize

Run(cm) == Exec(Store, cm)

Commit(r) ==
    /\ kv' = r.st.kv
    /\ bucket' = r.st.bucket
    /\ lists' = r.st.lists

\* the stored forms of the sentinel u: as written by _dumps, and as sent
\* without _dumps
SentinelWires(u) == {Wire(TRUE, PyStr(u)), Wire(FALSE, PyStr(u))}

\* the strings gen_rand_str may return to client c: no element of list l and
\* not the sentinel of a call another client is running
Fresh(l, c) ==
    {u \in Sentinels :
        /\ \A i \in 1..Len(l) : l[i] \notin SentinelWires(u)
        /\ \A d \in Clients \ {c} :
              IF pc[d] = "idle" THEN TRUE ELSE loc[d].uuid # u}

\* gen_rand_str(24, 32): every fresh string behaves like any other, the
\* model takes one of them
gen_rand_str(l, c) == CHOOSE u \in Fresh(l, c) : TRUE

\* what is kept of the first call while the call made right after it runs
First(op, index, value, before) ==
    [op |-> op, index |-> index, value |-> value, before |-> before]
NoFirst == First("none", 0, None, <<>>)

\* the locals of a list call; first is the call this one follows immediately
ListLoc(op, given, index, value, uuid, tmp, before, first) ==
    [op |-> op, next |-> "idle", alone |-> TRUE, given |-> given,
     index |-> index, value |-> value, uuid |-> uuid, item |-> None,
     before |-> before, start |-> -1 * count, stop |-> -1, cursor |-> <<>>,
     tmp |-> tmp, first |-> first]

\* RedisList.pop: the branch taken for the index
pop_branch(given, index) ==
    IF ~given THEN "pop_rpop" ELSE IF index = 0 THEN "pop_lpop"
    ELSE "pop_getitem"

\* a quota of Unlimited lets a client make any number of list calls; any
\* other quota lets it start one while the clients together have started
\* fewer calls than that
Unlimited == 0 - 1

Started == nops[1] + nops[2]

MayCall(c) == IF quota[c] = Unlimited THEN TRUE ELSE Started < quota[c]

Counted(c) ==
    nops' = [nops EXCEPT ![c] = IF quota[c] = Unlimited THEN @ ELSE @ + 1]

CanStart(c) == pc[c] = "idle" /\ MayCall(c)

\* the call of client c returns ret (or raises, ret = Error) and leaves the
\* list as `after`. The caller then does anything, or it goes on immediately:
\* with pop(index) after insert(index, value), with reverse() after reverse()
Return(c, ret, failed, after) ==
    /\ hist' = Call(c, loc[c].op, ret, pc[c], failed, ~hist.tick)
    /\ pipe' = [pipe EXCEPT ![c] = NoPipe]
    /\ results' = [results EXCEPT ![c] = <<>>]
    /\ LET l == loc[c]
           first == First(l.op, l.index, l.value, l.before)
           goes_on == ret.t # "error" /\ l.first = NoFirst /\ MayCall(c)
       IN  \/ /\ pc' = [pc EXCEPT ![c] = "idle"]
              /\ loc' = [loc EXCEPT ![c] = NoLoc]
              /\ UNCHANGED nops
           \/ /\ goes_on
              /\ l.op = "insert"
              /\ IF pop_branch(TRUE, l.index) = "pop_getitem"
                 THEN Fresh(after, c) # {} ELSE TRUE
              /\ pc' = [pc EXCEPT ![c] = pop_branch(TRUE, l.index)]
              /\ loc' = [loc EXCEPT ![c] =
                     ListLoc("pop", TRUE, l.index, None,
                             IF pop_branch(TRUE, l.index) = "pop_getitem"
                             THEN gen_rand_str(after, c)
                             ELSE <<>>,
                             <<>>, after, first)]
              /\ Counted(c)
           \/ /\ goes_on
              /\ l.op = "reverse"
              /\ pc' = [pc EXCEPT ![c] = "reverse_lrange"]
              /\ loc' = [loc EXCEPT ![c] =
                     ListLoc("reverse", FALSE, 0, None, <<>>, l.tmp, after,
                             first)]
              /\ Counted(c)

\* RedisList.__getitem__ with an integer index
getitem(index) ==
    _loads(serialized,
           Run(Cmd("LINDEX", list_key_prefix, <<>>, <<>>, index)).reply)

\* RedisList.__setitem__
setitem(index, value) ==
    Run(Cmd("LSET", list_key_prefix, Wire(serialized, value), <<>>, index))

\* RedisList.remove with count=0
remove(item) ==
    Run(Cmd("LREM", list_key_prefix, Wire(serialized, item), <<>>, 0))

\* RedisList.insert is called: _uuid = gen_rand_str(24, 32)
list_insert(c, index, value, uuid) ==
    /\ CanStart(c)
    /\ Len(TheList) < cap.len
    /\ value \in ListValues(serialized, cap.values)
    /\ Fresh(TheList, c) # {}
    /\ uuid = gen_rand_str(TheList, c)
    /\ pc' = [pc EXCEPT ![c] = "insert_getitem"]
    /\ loc' = [loc EXCEPT ![c] =
                  ListLoc("insert", TRUE, index, value, uuid, <<>>, TheList,
                          NoFirst)]
    /\ hist' = NoHist
    /\ Counted(c)
    /\ UNCHANGED <<adapters, serialized, quota, cap, kv, bucket, lists, pipe, results>>

\* RedisList.insert: item_at_index = self[index]
list_insert_getitem(c) ==
    /\ pc[c] = "insert_getitem"
    /\ IF getitem(loc[c].index).t = "error"
       THEN Return(c, Error, FALSE, TheList)
       ELSE /\ pc' = [pc EXCEPT ![c] = "insert_setitem"]
            /\ loc' = [loc EXCEPT ![c].item = getitem(loc[c].index)]
            /\ UNCHANGED <<pipe, results, hist, nops>>
    /\ UNCHANGED <<adapters, serialized, quota, cap, kv, bucket, lists>>

\* RedisList.insert with the two LINSERT queued on a pipeline(transaction=False)
list_insert_setitem_untransacted(c) ==
    /\ pc[c] = "insert_setitem"
    /\ LET r == setitem(loc[c].index, PyStr(loc[c].uuid))
           _uuid == Wire(serialized, PyStr(loc[c].uuid))
       IN  IF r.reply.t = "error"
           THEN /\ Return(c, Error, FALSE, TheList)
                /\ UNCHANGED <<kv, bucket, lists>>
           ELSE /\ Commit(r)
                /\ pipe' = [pipe EXCEPT ![c] =
                       Pipeline(FALSE,
                           <<Cmd("LINSERT", list_key_prefix,
                                 Wire(serialized, loc[c].value), _uuid, 0),
                             Cmd("LINSERT", list_key_prefix,
                                 Encode(loc[c].item), _uuid, 0)>>)]
                /\ pc' = [pc EXCEPT ![c] = "execute"]
                /\ loc' = [loc EXCEPT ![c].next = "insert_remove"]
                /\ UNCHANGED <<results, hist, nops>>
    /\ UNCHANGED <<adapters, serialized, quota, cap>>

\* RedisList.insert: self[index] = _uuid, then the two LINSERT are queued on
\* a pipeline(transaction=True)
list_insert_setitem(c) ==
    /\ pc[c] = "insert_setitem"
    /\ LET r == setitem(loc[c].index, PyStr(loc[c].uuid))
           _uuid == Wire(serialized, PyStr(loc[c].uuid))
       IN  IF r.reply.t = "error"
           THEN /\ Return(c, Error, FALSE, TheList)
                /\ UNCHANGED <<kv, bucket, lists>>
           ELSE /\ Commit(r)
                /\ pipe' = [pipe EXCEPT ![c] =
                       Pipeline(TRUE,
                           <<Cmd("LINSERT", list_key_prefix,
                                 Wire(serialized, loc[c].value), _uuid, 0),
                             Cmd("LINSERT", list_key_prefix,
                                 Encode(loc[c].item), _uuid, 0)>>)]
                /\ pc' = [pc EXCEPT ![c] = "execute"]
                /\ loc' = [loc EXCEPT ![c].next = "insert_remove"]
                /\ UNCHANGED <<results, hist, nops>>
    /\ UNCHANGED <<adapters, serialized, quota, cap>>

\* RedisList.insert: self.remove(uuid); return results[0]
list_insert_remove(c) ==
    /\ pc[c] = "insert_remove"
    /\ LET r == remove(PyStr(loc[c].uuid))
       IN  /\ Commit(r)
           /\ Return(c, PyInt(IntText(results[c][1].n)), FALSE,
                     ListAt(r.st, list_key_prefix))
    /\ UNCHANGED <<adapters, serialized, quota, cap>>

\* RedisList.pop is called, with an index or without one
list_pop(c, given, index, uuid) ==
    /\ CanStart(c)
    /\ given \/ index = 0
    /\ IF pop_branch(given, index) = "pop_getitem"
       THEN Fresh(TheList, c) # {} /\ uuid = gen_rand_str(TheList, c)
       ELSE uuid = <<>>
    /\ pc' = [pc EXCEPT ![c] = pop_branch(given, index)]
    /\ loc' = [loc EXCEPT ![c] =
                  ListLoc("pop", given, index, None, uuid, <<>>, TheList,
                          NoFirst)]
    /\ hist' = NoHist
    /\ Counted(c)
    /\ UNCHANGED <<adapters, serialized, quota, cap, kv, bucket, lists, pipe, results>>

\* RedisList.pop(): return self._loads(self._client.rpop(self.key_prefix))
list_pop_rpop(c) ==
    /\ pc[c] = "pop_rpop"
    /\ LET r == Run(Cmd("RPOP", list_key_prefix, <<>>, <<>>, 0))
       IN  /\ Commit(r)
           /\ Return(c, _loads(serialized, r.reply), FALSE,
                     ListAt(r.st, list_key_prefix))
    /\ UNCHANGED <<adapters, serialized, quota, cap>>

\* RedisList.pop(0): return self._loads(self._client.lpop(self.key_prefix))
list_pop_lpop(c) ==
    /\ pc[c] = "pop_lpop"
    /\ LET r == Run(Cmd("LPOP", list_key_prefix, <<>>, <<>>, 0))
       IN  /\ Commit(r)
           /\ Return(c, _loads(serialized, r.reply), FALSE,
                     ListAt(r.st, list_key_prefix))
    /\ UNCHANGED <<adapters, serialized, quota, cap>>

\* RedisList.pop(index): r = self[index]
list_pop_getitem(c) ==
    /\ pc[c] = "pop_getitem"
    /\ IF getitem(loc[c].index).t = "error"
       THEN Return(c, Error, FALSE, TheList)
       ELSE /\ pc' = [pc EXCEPT ![c] = "pop_setitem"]
            /\ loc' = [loc EXCEPT ![c].item = getitem(loc[c].index)]
            /\ UNCHANGED <<pipe, results, hist, nops>>
    /\ UNCHANGED <<adapters, serialized, quota, cap, kv, bucket, lists>>

\* RedisList.pop(index): self[index] = _uuid
list_pop_setitem(c) ==
    /\ pc[c] = "pop_setitem"
    /\ LET r == setitem(loc[c].index, PyStr(loc[c].uuid))
       IN  IF r.reply.t = "error"
           THEN /\ Return(c, Error, FALSE, TheList)
                /\ UNCHANGED <<kv, bucket, lists>>
           ELSE /\ Commit(r)
                /\ pc' = [pc EXCEPT ![c] = "pop_remove"]
                /\ UNCHANGED <<loc, pipe, results, hist, nops>>
    /\ UNCHANGED <<adapters, serialized, quota, cap>>

\* RedisList.pop(index) removing by the value read instead of by the sentinel
list_pop_remove_by_value(c) ==
    /\ pc[c] = "pop_remove"
    /\ LET r == remove(loc[c].item)
       IN  /\ Commit(r)
           /\ Return(c, loc[c].item, FALSE, ListAt(r.st, list_key_prefix))
    /\ UNCHANGED <<adapters, serialized, quota, cap>>

\* RedisList.pop(index): self.remove(_uuid); return r
list_pop_remove(c) ==
    /\ pc[c] = "pop_remove"
    /\ LET r == remove(PyStr(loc[c].uuid))
       IN  /\ Commit(r)
           /\ Return(c, loc[c].item, FALSE, ListAt(r.st, list_key_prefix))
    /\ UNCHANGED <<adapters, serialized, quota, cap>>

\* RedisList.reverse is called: tmp_list, start and stop are set up; the
\* random name n of tmp_list is taken not to meet a key that exists or the
\* tmp_list of a reverse() another client is running
list_reverse(c, n) ==
    /\ CanStart(c)
    /\ tmp_key_prefix(n) \notin DOMAIN lists
    /\ \A d \in Clients \ {c} :
          IF pc[d] = "idle" THEN TRUE ELSE loc[d].tmp # tmp_key_prefix(n)
    /\ pc' = [pc EXCEPT ![c] = "reverse_lrange"]
    /\ loc' = [loc EXCEPT ![c] =
                  ListLoc("reverse", FALSE, 0, None, <<>>, tmp_key_prefix(n),
                          TheList, NoFirst)]
    /\ hist' = NoHist
    /\ Counted(c)
    /\ UNCHANGED <<adapters, serialized, quota, cap, kv, bucket, lists, pipe, results>>

\* RedisList.reverse: cursor = lrange(key_prefix, start, stop); the loop ends
\* on an empty page
list_reverse_lrange(c) ==
    /\ pc[c] = "reverse_lrange"
    /\ LET r == Run(Cmd("LRANGE", list_key_prefix, <<>>, loc[c].stop,
                        loc[c].start))
       IN  /\ loc' = [loc EXCEPT ![c].cursor = r.reply.s]
           /\ pc' = [pc EXCEPT ![c] = IF r.reply.s = <<>>
                                      THEN "reverse_rename"
                                      ELSE "reverse_extend"]
    /\ UNCHANGED <<adapters, serialized, quota, cap, kv, bucket, lists, pipe, results,
                   nops, hist>>

\* the page taken as it came, without reversed()
Reverse_omitted(s) == s

\* reversed(cursor)
Reverse(s) == [i \in 1..Len(s) |-> s[Len(s) + 1 - i]]

\* map(_loads, page)
Loaded(ser, page) == [i \in 1..Len(page) |-> _loads(ser, Bytes(page[i]))]

\* RedisList.extend on the list at key: every item through _dumps when the
\* list is serialized, then one RPUSH
extend(st, ser, key, items) ==
    Exec(st, Cmd("RPUSH", key,
                 [i \in 1..Len(items) |->
                     IF ser THEN Wire(ser, items[i]) ELSE Encode(items[i])],
                 <<>>, 0))

\* RedisList.reverse: tmp_list.extend(map(_loads, reversed(cursor))); then
\* start -= count, stop -= count
list_reverse_extend(c) ==
    /\ pc[c] = "reverse_extend"
    /\ LET items == Loaded(serialized, Reverse(loc[c].cursor))
           r == extend(Store, serialized, loc[c].tmp, items)
       IN  IF \E i \in 1..Len(items) : items[i].t = "error"
           THEN /\ Return(c, Error, FALSE, TheList)
                /\ UNCHANGED <<kv, bucket, lists>>
           ELSE /\ Commit(r)
                /\ loc' = [loc EXCEPT ![c].start = @ - count,
                                      ![c].stop = @ - count]
                /\ pc' = [pc EXCEPT ![c] = "reverse_lrange"]
                /\ UNCHANGED <<pipe, results, hist, nops>>
    /\ UNCHANGED <<adapters, serialized, quota, cap>>

\* RedisList.reverse: self._client.rename(tmp_list.key_prefix, self.key_prefix)
list_reverse_rename(c) ==
    /\ pc[c] = "reverse_rename"
    /\ LET r == Run(Cmd("RENAME", loc[c].tmp, list_key_prefix, <<>>, 0))
       IN  IF r.reply.t = "error"
           THEN /\ Return(c, Error, FALSE, TheList)
                /\ UNCHANGED <<kv, bucket, lists>>
           ELSE /\ Commit(r)
                /\ pc' = [pc EXCEPT ![c] = "reverse_clear"]
                /\ UNCHANGED <<loc, pipe, results, hist, nops>>
    /\ UNCHANGED <<adapters, serialized, quota, cap>>

\* RedisList.reverse: tmp_list.clear()
list_reverse_clear(c) ==
    /\ pc[c] = "reverse_clear"
    /\ LET r == Run(Cmd("DEL", loc[c].tmp, <<>>, <<>>, 0))
       IN  /\ Commit(r)
           /\ Return(c, None, FALSE, ListAt(r.st, list_key_prefix))
    /\ UNCHANGED <<adapters, serialized, quota, cap>>

\* a failure after which the list is put back as the call found it
list_fail_rolled_back(c) ==
    /\ pc[c] \in {"insert_getitem", "insert_setitem", "execute",
                  "insert_remove", "pop_rpop", "pop_lpop", "pop_getitem",
                  "pop_setitem", "pop_remove", "reverse_lrange",
                  "reverse_extend", "reverse_rename", "reverse_clear"}
    /\ loc[c].op \in {"insert", "pop", "reverse"}
    /\ Return(c, Error, TRUE, loc[c].before)
    /\ lists' = IF loc[c].before = <<>> THEN Drop(lists, {list_key_prefix})
                ELSE Put(lists, list_key_prefix, loc[c].before)
    /\ UNCHANGED <<adapters, serialized, quota, cap, kv, bucket>>

\* the connection or the server fails at the command a list call is about to
\* send: redis-py raises, the call ends there, nothing is rolled back
list_fail(c) ==
    /\ pc[c] \in {"insert_getitem", "insert_setitem", "execute",
                  "insert_remove", "pop_rpop", "pop_lpop", "pop_getitem",
                  "pop_setitem", "pop_remove", "reverse_lrange",
                  "reverse_extend", "reverse_rename", "reverse_clear"}
    /\ loc[c].op \in {"insert", "pop", "reverse"}
    /\ Return(c, Error, TRUE, TheList)
    /\ UNCHANGED <<adapters, serialized, quota, cap, kv, bucket, lists>>

----------------------------------------------------------------------------
(* The list specifications *)

RECURSIVE SeqsUpTo(_, _)
SeqsUpTo(S, n) ==
    IF n = 0 THEN {<<>>}
    ELSE SeqsUpTo(S, n - 1)
         \cup {Append(s, x) : s \in SeqsUpTo(S, n - 1) \ {<<>>}, x \in S}
         \cup {<<x>> : x \in S}

\* a list of at most n elements written through the library, by the clients
\* with a positive quota
InitList(n, nvalues, q) ==
    /\ serialized \in BOOLEAN
    /\ InitAdapters
    /\ kv = EmptyFn
    /\ bucket = EmptyFn
    /\ \E l \in SeqsUpTo({Wire(serialized, v) :
                             v \in ListValues(serialized, nvalues)}, n - 1) :
          lists = IF l = <<>> THEN EmptyFn ELSE Put(EmptyFn, list_key_prefix, l)
    /\ pc = [c \in Clients |-> "idle"]
    /\ loc = [c \in Clients |-> NoLoc]
    /\ pipe = [c \in Clients |-> NoPipe]
    /\ results = [c \in Clients |-> <<>>]
    /\ nops = [c \in Clients |-> 0]
    /\ quota = q
    /\ cap = [len |-> n, values |-> nvalues]
    /\ hist = NoHist

\* the indexes a caller passes: every position from either end, and one past
Indexes == (-1 * (Len(TheList) + 1))..Len(TheList)

ListStep(c) ==
    \/ \E index \in Indexes, value \in AllListValues, uuid \in Sentinels :
          list_insert(c, index, value, uuid)
    \/ list_insert_getitem(c)
    \/ list_insert_setitem(c)
    \/ pipe_execute(c)
    \/ list_insert_remove(c)
    \/ \E given \in BOOLEAN, index \in Indexes, uuid \in Sentinels \cup {<<>>} :
          list_pop(c, given, index, uuid)
    \/ list_pop_rpop(c)
    \/ list_pop_lpop(c)
    \/ list_pop_getitem(c)
    \/ list_pop_setitem(c)
    \/ list_pop_remove(c)
    \/ \E n \in RandInts : list_reverse(c, n)
    \/ list_reverse_lrange(c)
    \/ list_reverse_extend(c)
    \/ list_reverse_rename(c)
    \/ list_reverse_clear(c)

ListNext == \E c \in Clients : ListStep(c)

ListFailNext == \E c \in Clients : ListStep(c) \/ list_fail(c)

OneClient == [c \in Clients |-> IF c = 1 THEN Unlimited ELSE 0]

\* one client, no failure
SpecList == InitList(MaxLen, 2, OneClient) /\ [][ListNext]_vars

\* one client; any command may fail
SpecListFail == InitList(MaxFailLen, 1, OneClient) /\ [][ListFailNext]_vars

\* two clients on the same list, no failure
SpecListConc ==
    InitList(MaxConcLen, 1, [c \in Clients |-> MaxConcCalls])
    /\ [][ListNext]_vars

\* C12: when clear() of the only client has returned, no key under the
\* dict's Key Prefix exists, the bucket field of the Key Prefix is removed
\* and len() is 0
C12_ClearRemovesAll ==
    (pc[1] = "idle" /\ loc[1].op = "clear")
    => /\ Present = {}
       /\ dict_key_prefix \notin DOMAIN bucket
       /\ size = 0

\* a clear() that needed several scans has returned on a dict that held keys
\* and a counter, next to a key of another dict
C12_Witness ==
    /\ pc[1] = "idle"
    /\ loc[1].op = "clear"
    /\ loc[1].scans > 1
    /\ foreign_key \in DOMAIN kv
    /\ hist.op = "none"
    /\ nops[1] > 1

\* the methods of RedisDict that read or set a time to live
TtlMethods == Unsupported \cup {"psetex"}

\* C11: every RedisDict method that reads or sets a time to live (ttl, pttl,
\* set_ttl, set_pttl, expire_at, setex, psetex) raises before it sends a
\* command and leaves the element keys and the bucket counter unchanged
C11_TtlUnsupported ==
    [][(hist'.tick # hist.tick /\ hist'.op \in TtlMethods)
         => /\ hist'.ret = Error
            /\ hist'.at = "raise"
            /\ kv' = kv
            /\ bucket' = bucket]_vars

----------------------------------------------------------------------------
(* Properties of the list *)

\* the list call of client c returns in this step
Returns(c) == pc[c] # "idle" /\ hist'.tick # hist.tick /\ hist'.c = c

\* RedisList.__getitem__ applied to the stored list l, index i counted from 0
get(l, i) == _loads(serialized, Bytes(l[i + 1]))

\* every element of l can be read
Readable(l) == \A i \in 0..(Len(l) - 1) : get(l, i).t # "error"

\* l holds a sentinel, written through _dumps or not
HasSentinel(l) ==
    \E i \in 1..Len(l), u \in Sentinels : l[i] \in SentinelWires(u)

\* l without its position p
Deleted(l, p) == SubSeq(l, 1, p - 1) \o SubSeq(l, p + 1, Len(l))

\* l in reverse order
Reversed(l) == [i \in 1..Len(l) |-> l[Len(l) + 1 - i]]

\* C2: insert(i, v) with 0 <= i < len on a list whose elements can be read,
\* one client: it does not raise; afterwards get(i) returns v, the element
\* that was at i is read at i+1, the elements after i are read one position
\* later, the elements before i where they were, the list is one longer and
\* holds no sentinel
C2_InsertShifts ==
    [][\A c \in Clients :
         (/\ Returns(c)
          /\ loc[c].op = "insert"
          /\ loc[c].index \in 0..(Len(loc[c].before) - 1)
          /\ Readable(loc[c].before))
         => LET L == loc[c].before
                i == loc[c].index
                A == TheList'
            IN  /\ hist'.ret.t # "error"
                /\ Len(A) = Len(L) + 1
                /\ get(A, i) = loc[c].value
                /\ \A j \in 0..(Len(L) - 1) :
                      get(A, IF j < i THEN j ELSE j + 1) = get(L, j)
                /\ ~HasSentinel(A)]_vars

\* the position pop takes from list l: the last one without an index
PopPos(l, given, index) == IF given THEN Pos(l, index) ELSE Len(l)

\* C3: pop(i) with a valid index i (pop() the last position, pop(0) the
\* first) whose element can be read, one client: it returns that element and
\* the list is the one before with exactly that position deleted
C3_PopRemovesPosition ==
    [][\A c \in Clients :
         (/\ Returns(c)
          /\ loc[c].op = "pop"
          /\ PopPos(loc[c].before, loc[c].given, loc[c].index) # 0
          /\ get(loc[c].before,
                 PopPos(loc[c].before, loc[c].given, loc[c].index) - 1).t
                 # "error")
         => LET L == loc[c].before
                p == PopPos(L, loc[c].given, loc[c].index)
            IN  /\ hist'.ret = get(L, p - 1)
                /\ TheList' = Deleted(L, p)]_vars

\* a pop by sentinel returned an element of which an equal one stays in the list
C3_Witness ==
    /\ pc[1] = "idle"
    /\ hist.op = "pop"
    /\ hist.at = "pop_remove"
    /\ hist.ret.t \in {"str", "int"}
    /\ \E i \in 1..Len(TheList) : TheList[i] = Wire(serialized, hist.ret)

\* the two LINSERT of the insert client c runs: the value before the
\* sentinel, then the element read at the index before the sentinel
InsertBatch(c) ==
    LET _uuid == Wire(serialized, PyStr(loc[c].uuid))
    IN  <<Cmd("LINSERT", list_key_prefix, Wire(serialized, loc[c].value),
              _uuid, 0),
          Cmd("LINSERT", list_key_prefix, Encode(loc[c].item), _uuid, 0)>>

\* C6: with two clients, an insert that waits at pipe.execute() holds exactly
\* its two LINSERT in their order, and the step that runs one of them runs
\* both on the list as it is, with no command of the other client in between:
\* no state shows the list with only the first of them applied
C6_InsertBatchAtomic ==
    [][\A c \in Clients :
         /\ (pc'[c] = "execute" /\ loc'[c].op = "insert")
            => pipe'[c].cmds = InsertBatch(c)'
         /\ (/\ pc[c] = "execute"
             /\ loc[c].op = "insert"
             /\ pipe'[c].cmds # pipe[c].cmds)
            => /\ pipe[c].cmds = InsertBatch(c)
               /\ pipe'[c].cmds = <<>>
               /\ pc'[c] = "insert_remove"
               /\ lists' = ExecAll(Store, InsertBatch(c), <<>>).st.lists]_vars

\* the batch of an insert has run while the other client was inside a call
C6_Witness ==
    \E c \in Clients, d \in Clients :
        /\ c # d
        /\ pc[c] = "insert_remove"
        /\ Len(results[c]) = 2
        /\ pc[d] \notin {"idle", "execute"}

\* C7: reverse() on a list whose elements can be read, one client: it does
\* not raise, whatever the length of the list, the empty list included; and
\* the second of two reverse() in a row leaves the list as it was before the
\* first
C7_ReverseInvolution ==
    [][\A c \in Clients :
         (/\ Returns(c)
          /\ loc[c].op = "reverse"
          /\ Readable(loc[c].before))
         => /\ hist'.ret.t # "error"
            /\ loc[c].first.op = "reverse"
               => TheList' = loc[c].first.before]_vars

\* C8: reverse() on a non-empty list whose elements can be read, one client:
\* it does not raise, the list under the original key is the list before in
\* reverse order, and the temporary key does not exist
C8_ReverseResult ==
    [][\A c \in Clients :
         (/\ Returns(c)
          /\ loc[c].op = "reverse"
          /\ loc[c].before # <<>>
          /\ Readable(loc[c].before))
         => /\ hist'.ret.t # "error"
            /\ TheList' = Reversed(loc[c].before)
            /\ loc[c].tmp \notin (DOMAIN lists') \cup (DOMAIN kv')]_vars

\* a reverse() returned on a list longer than one page that is not its own
\* reverse
C8_Witness ==
    /\ pc[1] = "idle"
    /\ hist.op = "reverse"
    /\ hist.at = "reverse_clear"
    /\ Len(TheList) > PageSize
    /\ TheList # Reversed(TheList)

\* C9: insert(i, v) with 0 <= i < len on a list L whose elements can be read,
\* followed immediately by pop(i), one client: the pop returns v and the list
\* reads as L did, element by element
C9_InsertPopRoundTrip ==
    [][\A c \in Clients :
         (/\ Returns(c)
          /\ loc[c].op = "pop"
          /\ loc[c].first.op = "insert"
          /\ loc[c].first.index \in 0..(Len(loc[c].first.before) - 1)
          /\ Readable(loc[c].first.before))
         => LET L == loc[c].first.before
                A == TheList'
            IN  /\ hist'.ret = loc[c].first.value
                /\ Len(A) = Len(L)
                /\ \A j \in 0..(Len(L) - 1) : get(A, j) = get(L, j)]_vars

\* the list as a store failure at position `at` of the insert or pop(index)
\* of client c leaves it: the element at the index overwritten with the
\* sentinel, and for an insert whose batch has run the value and the element
\* read in front of the sentinel
Partial(c, at) ==
    LET L == loc[c].before
        p == Pos(L, loc[c].index)
        _uuid == Wire(serialized, PyStr(loc[c].uuid))
    IN  IF at = "insert_remove"
        THEN SubSeq(L, 1, p - 1)
             \o <<Wire(serialized, loc[c].value), Encode(loc[c].item), _uuid>>
             \o SubSeq(L, p + 1, Len(L))
        ELSE [L EXCEPT ![p] = _uuid]

\* C10: an insert or pop(index) that a store failure stops between the
\* overwrite with the sentinel and the removal of the sentinel raises, the
\* failing step changes nothing, and the list stays as the commands that ran
\* left it, the sentinel included. A sentinel in the list is gone after a
\* call only if that call was a pop of the position holding it
C10_ResidualSentinel ==
    [][\A c \in Clients :
         /\ (/\ Returns(c)
             /\ hist'.failed
             /\ hist'.at \in {"execute", "insert_remove", "pop_remove"})
            => /\ hist'.ret = Error
               /\ pc'[c] = "idle"
               /\ lists' = lists
               /\ TheList' = Partial(c, hist'.at)
               /\ HasSentinel(TheList')
         /\ (/\ Returns(c)
             /\ HasSentinel(loc[c].before)
             /\ ~HasSentinel(TheList'))
            => /\ loc[c].op = "pop"
               /\ PopPos(loc[c].before, loc[c].given, loc[c].index) # 0
               /\ \E u \in Sentinels :
                     loc[c].before[PopPos(loc[c].before, loc[c].given,
                                          loc[c].index)]
                         \in SentinelWires(u)]_vars

\* a later call has returned without an error and the sentinel a failed call
\* left is still in the list
C10_Witness ==
    /\ pc[1] = "idle"
    /\ hist.op \in {"insert", "pop", "reverse"}
    /\ ~hist.failed
    /\ hist.ret.t # "error"
    /\ HasSentinel(TheList)

----------------------------------------------------------------------------
(* Cursor iteration: RedisMap and RedisDict, RedisHash, RedisSet,           *)
(* RedisSortedSet                                                           *)

\* a slot of a scanned table that holds no element
Hole == <<>>

\* the elements callers write to a set or a sorted set, in the order of the
\* slots they take in the table the store walks
Elems(ser) ==
    IF ser THEN <<PyStr(<<"a">>), PyInt(<<"1">>)>>
    ELSE <<PyStr(<<"a">>), PyStr(<<"b">>)>>

\* the keys callers write to a map or a hash
ElemKeys == <<PyStr(<<"a">>), PyInt(<<"1">>)>>

\* the score a caller gives the i-th element at first
FirstScore(i) == 3 - i

\* the table HSCAN walks: the fields, and slots that stay empty
FieldSlots == <<Encode(ElemKeys[1]), Hole, Encode(ElemKeys[2]), Hole>>

\* the table SSCAN and ZSCAN walk
MemberSlots(ser) ==
    <<Wire(ser, Elems(ser)[1]), Hole, Wire(ser, Elems(ser)[2]), Hole>>

\* HSCAN, SSCAN, ZSCAN cursor COUNT n: the elements in the next n slots of
\* the table, and the next cursor, 0 after the last slot
ScanTable(table, present, cursor, n) ==
    LET to == IF cursor + n >= Len(table) THEN Len(table) ELSE cursor + n
        page == SelectSeq(SubSeq(table, cursor + 1, to),
                          LAMBDA k : k \in present)
    IN  Rep("scan", page, IF to = Len(table) THEN 0 ELSE to)

\* str.replace(old, "", 1): the text without the first occurrence of old
Replace1(w, old) ==
    LET at == {i \in 1..(Len(w) - Len(old) + 1) :
                  SubSeq(w, i, i + Len(old) - 1) = old}
        i == CHOOSE j \in at : \A k \in at : j <= k
    IN  IF at = {} THEN w
        ELSE SubSeq(w, 1, i - 1) \o SubSeq(w, i + Len(old), Len(w))

\* RedisSortedSet.cast, float by default, of an integral score
cast(n) == [t |-> "float", s |-> IntText(n) \o <<".", "0">>]

\* what a pass yields: a key or member alone, or with its value or score
Yield(k, v) == [k |-> k, v |-> v]

\* one turn of a cursor loop: the cursor returned and what the turn yields
Turn(cursor, items) == [cursor |-> cursor, items |-> items]

\* RedisMap.scan: the decoded full key names of the page
map_scan(n, cursor) ==
    LET r == scan(dict_key_prefix, n, cursor)
    IN  Turn(r.n, [i \in 1..Len(r.s) |-> Yield(_decode(r.s[i]), None)])

\* RedisMap.iter: scan_iter of the client with the key prefix replaced
map_iter(n, cursor) ==
    LET r == scan(dict_key_prefix, n, cursor)
    IN  Turn(r.n, [i \in 1..Len(r.s) |->
                      Yield(PyStr(Replace1(_decode(r.s[i]).s,
                                           dict_key_prefix \o <<":">>)),
                            None)])

\* count of RedisMap.scan when items() calls it: the default, 1000, scaled
\* as the page of clear() is
items_count == ScanPage

\* RedisMap.items, one turn of its loop: scan, MGET of a page that has keys
map_items(cursor) ==
    LET r == scan(dict_key_prefix, items_count, cursor)
    IN  Turn(r.n, [i \in 1..Len(r.s) |->
                      Yield(PyStr(Replace1(r.s[i],
                                           dict_key_prefix \o <<":">>)),
                            _loads(serialized,
                                   IF r.s[i] \in DOMAIN kv
                                   THEN Bytes(kv[r.s[i]]) ELSE Nil))])

\* RedisHash.scan: the decoded fields of the page
hash_scan(n, cursor) ==
    LET r == ScanTable(FieldSlots, DOMAIN hash, cursor, n)
    IN  Turn(r.n, [i \in 1..Len(r.s) |-> Yield(_decode(r.s[i]), None)])

\* RedisHash.iter: hscan_iter of the client, the fields decoded
hash_iter(n, cursor) ==
    LET r == ScanTable(FieldSlots, DOMAIN hash, cursor, n)
    IN  Turn(r.n, [i \in 1..Len(r.s) |-> Yield(_decode(r.s[i]), None)])

\* RedisHash.items: hscan_iter of the client, the values through _loads
hash_items(n, cursor) ==
    LET r == ScanTable(FieldSlots, DOMAIN hash, cursor, n)
    IN  Turn(r.n, [i \in 1..Len(r.s) |->
                      Yield(_decode(r.s[i]),
                            _loads(serialized, Bytes(hash[r.s[i]])))])

\* RedisSet.scan: the members of the page through _loads
set_scan(n, cursor) ==
    LET r == ScanTable(MemberSlots(serialized), sset, cursor, n)
    IN  Turn(r.n, [i \in 1..Len(r.s) |->
                      Yield(_loads(serialized, Bytes(r.s[i])), None)])

\* RedisSet.iter: sscan_iter of the client, the members through _loads
set_iter(n, cursor) ==
    LET r == ScanTable(MemberSlots(serialized), sset, cursor, n)
    IN  Turn(r.n, [i \in 1..Len(r.s) |->
                      Yield(_loads(serialized, Bytes(r.s[i])), None)])

\* RedisSortedSet.scan: (member, score) pairs, the member through _loads
\* when serialized and through _decode otherwise, the score through cast
zset_scan(n, cursor) ==
    LET r == ScanTable(MemberSlots(serialized), DOMAIN zset, cursor, n)
    IN  Turn(r.n, [i \in 1..Len(r.s) |->
                      Yield(IF serialized
                            THEN _loads(serialized, Bytes(r.s[i]))
                            ELSE _decode(r.s[i]),
                            cast(zset[r.s[i]]))])

\* RedisSortedSet.iterscan: zscan_iter of the client, mapped as scan() maps
zset_iterscan(n, cursor) ==
    LET r == ScanTable(MemberSlots(serialized), DOMAIN zset, cursor, n)
    IN  Turn(r.n, [i \in 1..Len(r.s) |->
                      Yield(IF serialized
                            THEN _loads(serialized, Bytes(r.s[i]))
                            ELSE _decode(r.s[i]),
                            cast(zset[r.s[i]]))])

\* the adapters and their cursor passes
Passes ==
    {<<"map", "scan">>, <<"map", "iter">>, <<"map", "items">>,
     <<"hash", "scan">>, <<"hash", "iter">>, <<"hash", "items">>,
     <<"set", "scan">>, <<"set", "iter">>,
     <<"zset", "scan">>, <<"zset", "iter">>}

\* the page sizes of the passes: 1, 10 and 1000 on the scale of the model's
\* tables, that is one slot, several slots, more slots than a table has
Counts == {1, ScanPage, 1000}

\* the next turn of the pass w
NextTurn(w) ==
    CASE w.kind = "map" /\ w.op = "scan" -> map_scan(w.count, w.cursor)
      [] w.kind = "map" /\ w.op = "iter" -> map_iter(w.count, w.cursor)
      [] w.kind = "map" /\ w.op = "items" -> map_items(w.cursor)
      [] w.kind = "hash" /\ w.op = "scan" -> hash_scan(w.count, w.cursor)
      [] w.kind = "hash" /\ w.op = "iter" -> hash_iter(w.count, w.cursor)
      [] w.kind = "hash" /\ w.op = "items" -> hash_items(w.count, w.cursor)
      [] w.kind = "set" /\ w.op = "scan" -> set_scan(w.count, w.cursor)
      [] w.kind = "set" /\ w.op = "iter" -> set_iter(w.count, w.cursor)
      [] w.kind = "zset" /\ w.op = "scan" -> zset_scan(w.count, w.cursor)
      [] w.kind = "zset" /\ w.op = "iter" -> zset_iterscan(w.count, w.cursor)

\* the pass w after a turn that ends the loop at a page without elements
Turned_until_empty(w, t) ==
    [w EXCEPT !.sent = w.cursor,
              !.cursor = t.cursor,
              !.out = @ \o t.items,
              !.scans = @ + 1,
              !.done = t.cursor = 0 \/ t.items = <<>>]

\* the pass w after the turn t: the page is yielded, the loop ends when the
\* cursor returned is 0
Turned(w, t) ==
    [w EXCEPT !.sent = w.cursor,
              !.cursor = t.cursor,
              !.out = @ \o t.items,
              !.scans = @ + 1,
              !.empty = @ + (IF t.items = <<>> /\ t.cursor # 0
                             THEN 1 ELSE 0),
              !.done = t.cursor = 0]

\* the pass a call begins: the cursor of the pass before
Fresh_resumed(kind, op, n) ==
    [kind |-> kind, op |-> op, count |-> n, cursor |-> walk.cursor,
     sent |-> 0, out |-> <<>>, scans |-> 0, empty |-> 0, done |-> FALSE]

\* the pass a call begins: cursor 0 (the string '0' in items() and clear()),
\* nothing yielded
FreshPass(kind, op, n) ==
    [kind |-> kind, op |-> op, count |-> n, cursor |-> 0,
     sent |-> 0, out |-> <<>>, scans |-> 0, empty |-> 0, done |-> FALSE]

\* a pass is started; the caller of scan() and the consumer of a generator
\* may have left the pass before unfinished
pass_start(kind, op, n) ==
    /\ walk.op = "clear" => walk.done
    /\ walk' = FreshPass(kind, op, IF <<kind, op>> = <<"map", "items">>
                                   THEN items_count ELSE n)
    /\ UNCHANGED <<serialized, kv, bucket, lists, pc, loc, pipe, results,
                   nops, quota, cap, hist, hash, sset, tset, zset, reversed, obs>>

\* one turn of the loop: the scan with the cursor the last one returned
pass_turn ==
    /\ walk.kind # "none"
    /\ walk.op # "clear"
    /\ ~walk.done
    /\ walk' = Turned(walk, NextTurn(walk))
    /\ UNCHANGED <<serialized, kv, bucket, lists, pc, loc, pipe, results,
                   nops, quota, cap, hist, hash, sset, tset, zset, reversed, obs>>

\* the collections hold the elements numbered by S, written through
\* __setitem__ (map, hash) and add (set, sorted set); the store may hold the
\* key of another dict
InitPass ==
    /\ serialized \in BOOLEAN
    /\ \E S \in SUBSET {1, 2}, other \in BOOLEAN :
          /\ kv = [k \in {get_key(ElemKeys[i]) : i \in S}
                          \cup (IF other THEN {foreign_key} ELSE {}) |->
                      Wire(serialized, PyStr(<<"x">>))]
          /\ hash = [f \in {Encode(ElemKeys[i]) : i \in S} |->
                        Wire(serialized, PyStr(<<"x">>))]
          /\ sset = {Wire(serialized, Elems(serialized)[i]) : i \in S}
          /\ tset = {}
          /\ zset = [m \in {Wire(serialized, Elems(serialized)[i]) : i \in S}
                        |-> FirstScore(CHOOSE i \in S :
                               Wire(serialized, Elems(serialized)[i]) = m)]
    /\ bucket = EmptyFn
    /\ lists = EmptyFn
    /\ pc = [c \in Clients |-> "idle"]
    /\ loc = [c \in Clients |-> NoLoc]
    /\ pipe = [c \in Clients |-> NoPipe]
    /\ results = [c \in Clients |-> <<>>]
    /\ nops = [c \in Clients |-> 0]
    /\ quota = [c \in Clients |-> 0]
    /\ cap = [len |-> 0, values |-> 0]
    /\ hist = NoHist
    /\ reversed = FALSE
    /\ walk = NoWalk
    /\ obs = NoObs

PassNext ==
    \/ \E p \in Passes, n \in Counts : pass_start(p[1], p[2], n)
    \/ pass_turn

\* full passes over collections nobody writes to
SpecPass == InitPass /\ [][PassNext]_vars

\* the elements of the collection a pass is made over, as the caller wrote
\* them, in the form the pass yields them
Written(kind, op) ==
    CASE kind = "map" /\ op = "scan" ->
           {Yield(PyStr(get_key(ElemKeys[i])), None) :
               i \in {j \in 1..2 : get_key(ElemKeys[j]) \in DOMAIN kv}}
      [] kind = "map" /\ op = "iter" ->
           {Yield(PyStr(Encode(ElemKeys[i])), None) :
               i \in {j \in 1..2 : get_key(ElemKeys[j]) \in DOMAIN kv}}
      [] kind = "map" /\ op = "items" ->
           {Yield(PyStr(Encode(ElemKeys[i])), PyStr(<<"x">>)) :
               i \in {j \in 1..2 : get_key(ElemKeys[j]) \in DOMAIN kv}}
      [] kind = "hash" /\ op \in {"scan", "iter"} ->
           {Yield(PyStr(Encode(ElemKeys[i])), None) :
               i \in {j \in 1..2 : Encode(ElemKeys[j]) \in DOMAIN hash}}
      [] kind = "hash" /\ op = "items" ->
           {Yield(PyStr(Encode(ElemKeys[i])), PyStr(<<"x">>)) :
               i \in {j \in 1..2 : Encode(ElemKeys[j]) \in DOMAIN hash}}
      [] kind = "set" ->
           {Yield(Elems(serialized)[i], None) :
               i \in {j \in 1..2 :
                         Wire(serialized, Elems(serialized)[j]) \in sset}}
      [] kind = "zset" ->
           {Yield(Elems(serialized)[i], cast(FirstScore(i))) :
               i \in {j \in 1..2 :
                   Wire(serialized, Elems(serialized)[j]) \in DOMAIN zset}}

\* C13: a finished pass over a collection that was not written to has
\* yielded every element of the collection and nothing else, each element
\* once, whatever the page size
C13_PassComplete ==
    (walk.kind # "none" /\ walk.done)
    => /\ {walk.out[i] : i \in 1..Len(walk.out)} = Written(walk.kind, walk.op)
       /\ Len(walk.out) = Cardinality(Written(walk.kind, walk.op))

\* a pass with one slot a page has finished on a collection of two elements
\* after pages without elements
C13_Witness ==
    /\ walk.done
    /\ walk.count = 1
    /\ walk.empty > 0
    /\ Len(walk.out) = 2
    /\ walk.kind \in {"hash", "set", "zset"}

----------------------------------------------------------------------------
(* The cursor loops of items() and clear()                                  *)

\* RedisMap.clear is called: cursor = '0'
map_clear ==
    /\ walk.op = "clear" => walk.done
    /\ walk' = FreshPass("map", "clear", clear_count)
    /\ UNCHANGED <<serialized, kv, bucket, lists, pc, loc, pipe, results,
                   nops, quota, cap, hist, hash, sset, tset, zset, reversed, obs>>

\* RedisMap.clear, one turn of the loop: scan, DEL of a page that has keys
map_clear_scan ==
    /\ walk.op = "clear"
    /\ ~walk.done
    /\ LET t == map_scan(walk.count, walk.cursor)
           keys == [i \in 1..Len(t.items) |-> t.items[i].k.s]
           r == IF keys = <<>> THEN [st |-> Store]
                ELSE Exec(Store, Cmd("DELETE", <<>>, keys, <<>>, 0))
       IN  /\ walk' = Turned(walk, t)
           /\ kv' = r.st.kv
    /\ UNCHANGED <<serialized, bucket, lists, pc, loc, pipe, results,
                   nops, quota, cap, hist, hash, sset, tset, zset, reversed, obs>>

\* a map or dict written through __setitem__ that holds the keys numbered by
\* S, next to the key of another dict or not; client 1 calls
InitLoops ==
    /\ serialized \in BOOLEAN
    /\ \E S \in SUBSET {1, 2}, other \in BOOLEAN :
          /\ kv = [k \in {get_key(ElemKeys[i]) : i \in S}
                          \cup (IF other THEN {foreign_key} ELSE {}) |->
                      Wire(serialized, PyStr(<<"x">>))]
          /\ bucket = IF S = {} THEN EmptyFn
                      ELSE Put(EmptyFn, dict_key_prefix, Cardinality(S))
    /\ lists = EmptyFn
    /\ pc = [c \in Clients |-> "idle"]
    /\ loc = [c \in Clients |-> NoLoc]
    /\ pipe = [c \in Clients |-> NoPipe]
    /\ results = [c \in Clients |-> <<>>]
    /\ nops = [c \in Clients |-> 0]
    /\ quota = [c \in Clients |-> IF c = 1 THEN MaxOps ELSE 0]
    /\ cap = [len |-> 0, values |-> 0]
    /\ hist = NoHist
    /\ InitAdapters

LoopsNext ==
    \/ pass_start("map", "items", items_count)
    \/ pass_turn
    \/ map_clear
    \/ map_clear_scan
    \/ \E c \in Clients, key \in PyKeys, value \in DictValues :
           dict_setitem(c, key, value)
    \/ \E c \in Clients : dict_clear(c)
    \/ \E c \in Clients : dict_clear_scan(c)
    \/ \E c \in Clients : pipe_execute(c)

SpecLoops == InitLoops /\ [][LoopsNext]_vars

\* every loop that is not dropped by its caller takes its next turn, and
\* the pipeline of clear() is executed
SpecLoopsFair ==
    /\ SpecLoops
    /\ WF_vars(pass_turn)
    /\ WF_vars(map_clear_scan)
    /\ WF_vars(dict_clear_scan(1))
    /\ WF_vars(pipe_execute(1))

\* a turn of the loop of items() or of RedisMap.clear() sends cursor 0 when
\* it is the first of its call and the cursor returned last otherwise; the
\* loop is left with this turn exactly when the cursor returned is 0
PassTurnOk ==
    (walk'.scans = walk.scans + 1)
    => /\ ~walk.done
       /\ walk'.sent = (IF walk.scans = 0 THEN 0 ELSE walk.cursor)
       /\ walk'.done <=> walk'.cursor = 0

\* the same for the loop of RedisDict.clear()
ClearTurnOk ==
    (pc[1] = "clear_scan" /\ loc'[1].scans = loc[1].scans + 1)
    => /\ loc'[1].sent = (IF loc[1].scans = 0 THEN 0 ELSE loc[1].cursor)
       /\ pc'[1] # "clear_scan" <=> loc'[1].cursor = 0

\* C14: the loops of items() and clear() start every call at cursor 0, pass
\* each returned cursor to the next scan, go on after pages without keys and
\* stop exactly when the store returns cursor 0; every call whose caller
\* keeps it running ends
C14_CursorLoops ==
    /\ [][PassTurnOk /\ ClearTurnOk]_vars
    /\ (walk.scans > 0 /\ ~walk.done) ~> (walk.done \/ walk.scans = 0)
    /\ (pc[1] = "clear_scan") ~> (pc[1] = "idle")

\* items() has finished after a page without keys and a non-zero cursor, and
\* a later clear() of the dict took several scans
C14_Witness ==
    /\ walk.done
    /\ walk.op = "items"
    /\ walk.empty > 0
    /\ walk.scans > 1
    /\ pc[1] = "idle"
    /\ loc[1].op = "clear"
    /\ loc[1].scans > 1

----------------------------------------------------------------------------
(* RedisSortedSet *)

\* the characters of the stored members, in byte order
Alphabet == <<Q, "0", "1", "2", "3", "4", "5", "6", "7", "8", "9", "a", "b">>

Ord(ch) == CHOOSE i \in 1..Len(Alphabet) : Alphabet[i] = ch

\* the byte order of two members
RECURSIVE TextLess(_, _)
TextLess(u, v) ==
    IF u = <<>> THEN v # <<>>
    ELSE IF v = <<>> THEN FALSE
    ELSE IF Head(u) = Head(v) THEN TextLess(Tail(u), Tail(v))
    ELSE Ord(Head(u)) < Ord(Head(v))

\* the order of a sorted set: by score, members of one score by their bytes
Before(z, m1, m2) == z[m1] < z[m2] \/ (z[m1] = z[m2] /\ TextLess(m1, m2))

\* ZRANK and ZREVRANK: nil for a member the set does not hold
ZRank(z, m) ==
    IF m \notin DOMAIN z THEN Nil
    ELSE IntRep(Cardinality({x \in DOMAIN z : Before(z, x, m)}))

ZRevRank(z, m) ==
    IF m \notin DOMAIN z THEN Nil
    ELSE IntRep(Cardinality({x \in DOMAIN z : Before(z, m, x)}))

\* the members from the lowest rank to the highest
ZOrder(z) ==
    [i \in 1..Cardinality(DOMAIN z) |->
        CHOOSE m \in DOMAIN z : ZRank(z, m).n = i - 1]

\* ZRANGE start stop, ZREVRANGE start stop when desc
ZRange(z, start, stop, desc) ==
    LET asc == ZOrder(z)
        all == IF desc THEN [i \in 1..Len(asc) |-> asc[Len(asc) + 1 - i]]
               ELSE asc
    IN  RangeOf(all, start, stop)

\* ZRANGEBYSCORE -inf +inf, ZREVRANGEBYSCORE +inf -inf when desc
ZRangeByScore(z, desc) == ZRange(z, 0, -1, desc)

\* ZSCORE
ZScore(z, m) == IF m \in DOMAIN z THEN IntRep(z[m]) ELSE Nil

\* the exceptions the methods raise
TypeError == [t |-> "error", s |-> <<"TypeError">>]
KeyError == [t |-> "error", s |-> <<"KeyError">>]

\* an int the client returns, or None
IntOrNone(reply) == IF reply.t = "nil" THEN None ELSE PyInt(IntText(reply.n))

\* self.cast of what the client returns: float(None) raises TypeError
cast_reply(reply) == IF reply.t = "nil" THEN TypeError ELSE cast(reply.n)

\* RedisSortedSet.rank on an instance whose reversed flag is rev
zset_rank(rev, member) ==
    IF rev THEN IntOrNone(ZRevRank(zset, Wire(serialized, member)))
    ELSE IntOrNone(ZRank(zset, Wire(serialized, member)))

\* revrank with the branches of rank
zset_revrank_as_rank(rev, member) ==
    IF rev THEN IntOrNone(ZRevRank(zset, Wire(serialized, member)))
    ELSE IntOrNone(ZRank(zset, Wire(serialized, member)))

\* RedisSortedSet.revrank on an instance whose reversed flag is rev
zset_revrank(rev, member) ==
    IF rev THEN IntOrNone(ZRank(zset, Wire(serialized, member)))
    ELSE IntOrNone(ZRevRank(zset, Wire(serialized, member)))

\* RedisSortedSet.iter(start, stop, withscores, reverse) on an instance whose
\* reversed flag is rev; reverse is None, True or False
zset_iter(rev, start, stop, withscores, reverse) ==
    LET desc == IF reverse.t = "none" THEN rev ELSE reverse.s = <<"1">>
        r == ZRange(zset, start, stop, desc)
    IN  [i \in 1..Len(r) |->
            Yield(_loads(serialized, Bytes(r[i])),
                  IF withscores THEN cast(zset[r[i]]) ELSE None)]

\* RedisSortedSet.items(reverse)
zset_items(rev, reverse) ==
    LET desc == IF reverse.t = "none" THEN rev ELSE reverse.s = <<"1">>
    IN  zset_iter(rev, 0, -1, TRUE, [t |-> "bool", s |-> IntText(IF desc THEN 1 ELSE 0)])

\* RedisSortedSet.values(reverse): the scores of items(reverse)
zset_values(rev, reverse) ==
    LET desc == IF reverse.t = "none" THEN rev ELSE reverse.s = <<"1">>
        r == zset_items(rev, [t |-> "bool", s |-> IntText(IF desc THEN 1 ELSE 0)])
    IN  [i \in 1..Len(r) |-> Yield(None, r[i].v)]

\* RedisSortedSet.iterbyscore(withscores, reverse) with the default range
zset_iterbyscore(rev, withscores, reverse) ==
    LET desc == IF reverse.t = "none" THEN rev ELSE reverse.s = <<"1">>
        r == ZRangeByScore(zset, desc)
    IN  [i \in 1..Len(r) |->
            Yield(_loads(serialized, Bytes(r[i])),
                  IF withscores THEN cast(zset[r[i]]) ELSE None)]

\* RedisSortedSet.itemsbyscore(reverse)
zset_itemsbyscore(rev, reverse) ==
    LET desc == IF reverse.t = "none" THEN rev ELSE reverse.s = <<"1">>
    IN  zset_iterbyscore(rev, TRUE, [t |-> "bool", s |-> IntText(IF desc THEN 1 ELSE 0)])

\* a bound of a slice: None when omitted
Bound(n) == [t |-> "int", s |-> <<>>, n |-> n]
NoBound == [t |-> "none", s |-> <<>>, n |-> 0]

\* RedisSortedSet.__getitem__ with a slice
zset_getitem_slice(rev, a, b) ==
    LET start == IF a.t = "int" /\ a.n # 0 THEN a.n ELSE 0
        stop == IF b.t = "int" /\ b.n # 0 THEN b.n - 1 ELSE 0 - 1
    IN  zset_iter(rev, start, stop, FALSE, None)

\* __getitem__ taking an int for a position
zset_getitem_int_as_index(member) ==
    LET r == cast_reply(ZScore(zset, Wire(serialized, member)))
    IN  IF member.t = "int" THEN None
        ELSE IF r = TypeError THEN KeyError ELSE r

\* RedisSortedSet.__getitem__ with anything else: cast of ZSCORE, KeyError
\* for the TypeError cast raises on None
zset_getitem(member) ==
    LET r == cast_reply(ZScore(zset, Wire(serialized, member)))
    IN  IF r = TypeError THEN KeyError ELSE r

\* RedisSortedSet.size: ZCARD
zset_size == Cardinality(DOMAIN zset)

\* RedisSortedSet.__contains__
zset_contains(member) == ZScore(zset, Wire(serialized, member)).t # "nil"

\* the scores callers write
Scores == 1..MaxScore

\* the members callers name
MemberArgs == {PyStr(<<"a">>), PyInt(<<"1">>), PyStr(<<"1">>)}

\* a direction given with a call: none, True or False
True == [t |-> "bool", s |-> <<"1">>]
False == [t |-> "bool", s |-> <<"0">>]
Overrides == {None, True, False}

\* bounds of the slices callers take
SliceBounds == {NoBound} \cup {Bound(n) : n \in (0 - 2)..2}

\* the call that returned: its name, its arguments, what it returned
Obs(op, m, a, b, rev, ret, list) ==
    [op |-> op, m |-> m, a |-> a, b |-> b, rev |-> rev, ret |-> ret,
     list |-> list]

\* a method of the sorted set that reads is called and returns
zset_read(o) ==
    /\ obs' = o
    /\ UNCHANGED <<serialized, kv, bucket, lists, pc, loc, pipe, results,
                   nops, quota, cap, hist, hash, sset, tset, zset, reversed, walk>>

\* s.rank(member), s.rank(member, reverse=...): rank takes no direction
call_rank(member, reverse) ==
    zset_read(Obs("rank", member, None, None, reverse,
                  IF reverse # None THEN TypeError
                  ELSE zset_rank(reversed, member), <<>>))

\* s.revrank(member), s.revrank(member, reverse=...)
call_revrank(member, reverse) ==
    zset_read(Obs("revrank", member, None, None, reverse,
                  IF reverse # None THEN TypeError
                  ELSE zset_revrank(reversed, member), <<>>))

\* s[member]
call_getitem(member) ==
    zset_read(Obs("getitem", member, None, None, None,
                  zset_getitem(member), <<>>))

\* s[a:b]
call_getitem_slice(a, b) ==
    zset_read(Obs("slice", None, a, b, None, None,
                  zset_getitem_slice(reversed, a, b)))

\* list(s.iter(reverse=...)), keys is iter
call_iter(reverse) ==
    zset_read(Obs("iter", None, None, None, reverse, None,
                  zset_iter(reversed, 0, 0 - 1, FALSE, reverse)))

call_items(reverse) ==
    zset_read(Obs("items", None, None, None, reverse, None,
                  zset_items(reversed, reverse)))

call_values(reverse) ==
    zset_read(Obs("values", None, None, None, reverse, None,
                  zset_values(reversed, reverse)))

call_iterbyscore(reverse) ==
    zset_read(Obs("iterbyscore", None, None, None, reverse, None,
                  zset_iterbyscore(reversed, FALSE, reverse)))

call_itemsbyscore(reverse) ==
    zset_read(Obs("itemsbyscore", None, None, None, reverse, None,
                  zset_itemsbyscore(reversed, reverse)))

\* a sorted set written through add(): some of the members, each with a score
InitZSet ==
    /\ serialized \in BOOLEAN
    /\ reversed \in BOOLEAN
    /\ \E S \in SUBSET {Wire(serialized, m) : m \in MemberArgs} :
          zset \in [S -> Scores]
    /\ kv = EmptyFn
    /\ bucket = EmptyFn
    /\ lists = EmptyFn
    /\ pc = [c \in Clients |-> "idle"]
    /\ loc = [c \in Clients |-> NoLoc]
    /\ pipe = [c \in Clients |-> NoPipe]
    /\ results = [c \in Clients |-> <<>>]
    /\ nops = [c \in Clients |-> 0]
    /\ quota = [c \in Clients |-> 0]
    /\ cap = [len |-> 0, values |-> 0]
    /\ hist = NoHist
    /\ hash = EmptyFn
    /\ sset = {}
    /\ tset = {}
    /\ walk = NoWalk
    /\ obs = NoObs

ZReadNext ==
    \/ \E m \in MemberArgs, r \in Overrides : call_rank(m, r)
    \/ \E m \in MemberArgs, r \in Overrides : call_revrank(m, r)
    \/ \E m \in MemberArgs : call_getitem(m)
    \/ \E a \in SliceBounds, b \in SliceBounds : call_getitem_slice(a, b)
    \/ \E r \in Overrides : call_iter(r)
    \/ \E r \in Overrides : call_items(r)
    \/ \E r \in Overrides : call_values(r)
    \/ \E r \in Overrides : call_iterbyscore(r)
    \/ \E r \in Overrides : call_itemsbyscore(r)

\* the reads of a sorted set nobody writes to
SpecZRead == InitZSet /\ [][ZReadNext]_vars

\* the score of the member stored as w
ScoreOf(w) == zset[w]

\* the number a text of digits stands for
RECURSIVE Num(_)
Num(w) ==
    IF w = <<>> THEN 0
    ELSE 10 * Num(SubSeq(w, 1, Len(w) - 1))
         + (CHOOSE d \in 0..9 : IntText(d) = <<w[Len(w)]>>)

Sorted(desc) ==
    LET asc == [i \in 1..Len(ZOrder(zset)) |->
                   _loads(serialized, Bytes(ZOrder(zset)[i]))]
    IN  IF desc THEN Reversed(asc) ELSE asc

\* the members of a list of yields
KeysOfList(l) == [i \in 1..Len(l) |-> l[i].k]

\* C16: s[x] with a slice returns members by position, a run of the members
\* in the order of the instance; s[x] with a str or an int returns the score
\* of the member named x through cast, and raises KeyError when the set has
\* no such member
C16_ShapeDecides ==
    /\ obs.op = "slice"
          => \E i \in 1..(zset_size + 1), j \in 0..zset_size :
                KeysOfList(obs.list) = SubSeq(Sorted(reversed), i, j)
    /\ obs.op = "getitem"
          => obs.ret = (IF Wire(serialized, obs.m) \in DOMAIN zset
                        THEN cast(ScoreOf(Wire(serialized, obs.m)))
                        ELSE KeyError)

\* s[1] returned the score of the member 1 of a set of several members, and
\* the member 1 is not the one at position 1
C16_Witness ==
    /\ obs.op = "getitem"
    /\ obs.m = PyInt(<<"1">>)
    /\ obs.ret = cast(2)
    /\ zset_size = 3
    /\ Sorted(reversed)[2] # PyInt(<<"1">>)

\* Python's l[a:b] for bounds that are integers or omitted
PySlice(l, a, b) ==
    LET n == Len(l)
        clip(x) == IF x < 0 THEN (IF n + x < 0 THEN 0 ELSE n + x)
                   ELSE IF x > n THEN n ELSE x
        lo == IF a.t = "none" THEN 0 ELSE clip(a.n)
        hi == IF b.t = "none" THEN n ELSE clip(b.n)
    IN  IF lo >= hi THEN <<>> ELSE SubSeq(l, lo + 1, hi)

\* C17: s[a:b] is the list Python's slicing gives for the members in
\* ascending order of score, descending when the instance is reversed
C17_SliceIsPythonSlice ==
    obs.op = "slice"
    => KeysOfList(obs.list) = PySlice(Sorted(reversed), obs.a, obs.b)

\* the direction of the call that returned: the one given with it, the
\* instance's when none was given
Descending == IF obs.rev = None THEN reversed ELSE obs.rev = True

\* the (member, score) pairs in a direction
SortedItems(desc) ==
    LET asc == [i \in 1..Len(ZOrder(zset)) |->
                   Yield(_loads(serialized, Bytes(ZOrder(zset)[i])),
                         cast(ScoreOf(ZOrder(zset)[i])))]
    IN  IF desc THEN Reversed(asc) ELSE asc

\* C18: rank, revrank, iter, items, values, iterbyscore and itemsbyscore
\* read in the direction given with the call, and in the direction of the
\* instance's reversed flag when none is given
C18_DirectionOverride ==
    /\ obs.op = "rank"
          => obs.ret = IntOrNone(IF Descending
                                 THEN ZRevRank(zset, Wire(serialized, obs.m))
                                 ELSE ZRank(zset, Wire(serialized, obs.m)))
    /\ obs.op = "revrank"
          => obs.ret = IntOrNone(IF Descending
                                 THEN ZRank(zset, Wire(serialized, obs.m))
                                 ELSE ZRevRank(zset, Wire(serialized, obs.m)))
    /\ obs.op \in {"iter", "iterbyscore"}
          => obs.list = [i \in 1..zset_size |->
                            Yield(Sorted(Descending)[i], None)]
    /\ obs.op \in {"items", "itemsbyscore"}
          => obs.list = SortedItems(Descending)
    /\ obs.op = "values"
          => obs.list = [i \in 1..zset_size |->
                            Yield(None, SortedItems(Descending)[i].v)]

----------------------------------------------------------------------------
(* RedisSortedSet: the methods that write *)

\* a (score, member) pair of a call
Pair(score, member) == [score |-> score, member |-> member]

\* ZADD key score member [score member ...]: the pairs one after the other
RECURSIVE ZAdd(_, _)
ZAdd(z, pairs) ==
    IF pairs = <<>> THEN z
    ELSE ZAdd(Put(z, Head(pairs).member, Head(pairs).score), Tail(pairs))

\* ZINCRBY key by member: a member the set does not hold counts from 0
ZIncrBy(z, m, by) == Put(z, m, (IF m \in DOMAIN z THEN z[m] ELSE 0) + by)

\* ZREM key member [member ...]
ZRem(z, ms) == Drop(z, ms)

\* add() sending the members of a serialized set as they are given
zset_add_undumped(args) ==
    ZAdd(zset, [i \in 1..Len(args) |->
                   Pair(args[i].score, Encode(args[i].member))])

\* RedisSortedSet.add(*args), args = score, member, score, member...: the
\* members through _dumps when the set is serialized, then ZADD
zset_add(args) ==
    ZAdd(zset, [i \in 1..Len(args) |->
                   Pair(args[i].score,
                        IF serialized
                        THEN Encode(_dumps(serialized, args[i].member))
                        ELSE Encode(args[i].member))])

\* RedisSortedSet.update(data): every key through _dumps, then ZADD
zset_update(data) ==
    ZAdd(zset, [i \in 1..Len(data) |->
                   Pair(data[i].score,
                        Encode(_dumps(serialized, data[i].member)))])

\* RedisSortedSet.incr(member, by)
zset_incr(member, by) == ZIncrBy(zset, Wire(serialized, member), by)

\* RedisSortedSet.decr(member, by)
zset_decr(member, by) == ZIncrBy(zset, Wire(serialized, member), by * (0 - 1))

\* RedisSortedSet.remove(*members)
zset_remove(members) ==
    ZRem(zset, {Wire(serialized, members[i]) : i \in 1..Len(members)})

\* RedisSortedSet.__delitem__(member)
zset_delitem(member) == ZRem(zset, {Wire(serialized, member)})

\* the pairs of a call as the list of an observation
Pairs(args) == [i \in 1..Len(args) |-> Yield(args[i].member, cast(args[i].score))]

\* a method of the sorted set that writes is called and returns
zset_write(z, o) ==
    /\ zset' = z
    /\ obs' = o
    /\ UNCHANGED <<serialized, kv, bucket, lists, pc, loc, pipe, results,
                   nops, quota, cap, hist, hash, sset, tset, reversed, walk>>

\* the number of members a ZADD adds
Added(z) == PyInt(IntText(Cardinality(DOMAIN z) - Cardinality(DOMAIN zset)))

\* s.add(score, member, ...)
call_add(args) ==
    zset_write(zset_add(args),
               Obs("add", None, None, None, None, Added(zset_add(args)),
                   Pairs(args)))

\* s[member] = score
call_setitem(member, score) ==
    zset_write(zset_add(<<Pair(score, member)>>),
               Obs("setitem", member, None, None, None,
                   Added(zset_add(<<Pair(score, member)>>)),
                   Pairs(<<Pair(score, member)>>)))

\* s.update(data)
call_update(data) ==
    zset_write(zset_update(data),
               Obs("update", None, None, None, None,
                   Added(zset_update(data)), Pairs(data)))

\* s.incr(member, by): the score after it
call_incr(member, by) ==
    /\ zset_incr(member, by)[Wire(serialized, member)] <= MaxScore
    /\ zset_write(zset_incr(member, by),
                  Obs("incr", member, Bound(by), None, None,
                      cast(zset_incr(member, by)[Wire(serialized, member)]),
                      <<>>))

\* s.decr(member, by)
call_decr(member, by) ==
    /\ zset_decr(member, by)[Wire(serialized, member)] >= 0
    /\ zset_write(zset_decr(member, by),
                  Obs("decr", member, Bound(by), None, None,
                      cast(zset_decr(member, by)[Wire(serialized, member)]),
                      <<>>))

\* s.remove(member, ...)
call_remove(members) ==
    zset_write(zset_remove(members),
               Obs("remove", None, None, None, None, None,
                   [i \in 1..Len(members) |-> Yield(members[i], None)]))

\* del s[member]
call_delitem(member) ==
    zset_write(zset_delitem(member),
               Obs("del", member, None, None, None,
                   PyInt(IntText(Cardinality(DOMAIN zset)
                                 - Cardinality(DOMAIN zset_delitem(member)))),
                   <<>>))

\* the arguments of add and update: one pair, or two pairs
PairArgs ==
    {<<Pair(s, m)>> : s \in Scores, m \in MemberArgs}
    \cup {<<Pair(s1, m1), Pair(s2, m2)>> :
             s1 \in 1..2, s2 \in 1..2, m1 \in MemberArgs, m2 \in MemberArgs}

\* the mappings update is given: the keys of a mapping differ
DataArgs == {d \in PairArgs : Len(d) = 2 => d[1].member # d[2].member}

\* the members remove is given
RemoveArgs ==
    {<<m>> : m \in MemberArgs}
    \cup {<<m1, m2>> : m1 \in MemberArgs, m2 \in MemberArgs}

\* a cleared sorted set
InitZWrite ==
    /\ serialized \in BOOLEAN
    /\ reversed = FALSE
    /\ zset = EmptyFn
    /\ kv = EmptyFn
    /\ bucket = EmptyFn
    /\ lists = EmptyFn
    /\ pc = [c \in Clients |-> "idle"]
    /\ loc = [c \in Clients |-> NoLoc]
    /\ pipe = [c \in Clients |-> NoPipe]
    /\ results = [c \in Clients |-> <<>>]
    /\ nops = [c \in Clients |-> 0]
    /\ quota = [c \in Clients |-> 0]
    /\ cap = [len |-> 0, values |-> 0]
    /\ hist = NoHist
    /\ hash = EmptyFn
    /\ sset = {}
    /\ tset = {}
    /\ walk = NoWalk
    /\ obs = NoObs

ZWriteNext ==
    \/ \E args \in PairArgs : call_add(args)
    \/ \E m \in MemberArgs, s \in Scores : call_setitem(m, s)
    \/ \E data \in DataArgs : call_update(data)
    \/ \E m \in MemberArgs, by \in 1..2 : call_incr(m, by)
    \/ \E m \in MemberArgs, by \in 1..2 : call_decr(m, by)
    \/ \E ms \in RemoveArgs : call_remove(ms)
    \/ \E m \in MemberArgs : call_delitem(m)

SpecZWrite == InitZWrite /\ [][ZWriteNext]_vars

\* the member a caller names, as the set tells members apart
Named(m) == Wire(serialized, m)

\* the scores the set is to hold after the call o on the scores z: a written
\* pair gives its member that score, the last pair of a member counts; incr
\* and decr move the score of the member, from 0 when it is new; remove and
\* del take the members out
RECURSIVE Written19(_, _)
Written19(z, l) ==
    IF l = <<>> THEN z
    ELSE Written19(Put(z, Named(Head(l).k), Num(SubSeq(Head(l).v.s, 1,
                                                   Len(Head(l).v.s) - 2))),
                   Tail(l))

After(z, o) ==
    CASE o.op \in {"add", "setitem", "update"} -> Written19(z, o.list)
      [] o.op = "incr" ->
           Put(z, Named(o.m),
               (IF Named(o.m) \in DOMAIN z THEN z[Named(o.m)] ELSE 0) + o.a.n)
      [] o.op = "decr" ->
           Put(z, Named(o.m),
               (IF Named(o.m) \in DOMAIN z THEN z[Named(o.m)] ELSE 0) - o.a.n)
      [] o.op = "remove" ->
           Drop(z, {Named(o.list[i].k) : i \in 1..Len(o.list)})
      [] o.op = "del" -> Drop(z, {Named(o.m)})
      [] OTHER -> z

\* C19: after add, s[m] = score, update, incr, decr, remove and del the set
\* holds every member once: len(s) is the number of different members it is
\* to hold, s[m] is the score written last for m and raises KeyError for a
\* member taken out; writing a member again changes its score and not len(s)
C19_MembersAndScores ==
    [][LET exp == After(zset, obs')
       IN  /\ zset_size' = Cardinality(DOMAIN exp)
           /\ \A m \in MemberArgs :
                 /\ zset_contains(m)' = (Named(m) \in DOMAIN exp)
                 /\ zset_getitem(m)' = (IF Named(m) \in DOMAIN exp
                                        THEN cast(exp[Named(m)])
                                        ELSE KeyError)]_vars

\* s[m] = score was called for a member the set held: nothing was added, the
\* set holds three members and m has the new score
C19_Witness ==
    /\ obs.op = "setitem"
    /\ obs.ret = PyInt(<<"0">>)
    /\ zset_size = 3
    /\ zset_getitem(obs.m) = cast(3)
    /\ \E m \in MemberArgs : zset_getitem(m) = cast(0)

----------------------------------------------------------------------------
(* Writing and reading a key: RedisMap, RedisDict, RedisHash *)

\* bool(value) as `assert result` takes it
Truthy(v) ==
    CASE v.t = "none" -> FALSE
      [] v.t = "int" -> v.s # <<"0">>
      [] v.t = "str" -> v.s # <<>>
      [] OTHER -> TRUE

\* HGET, HEXISTS, HSET, HDEL on the hash of the RedisHash
HGet(h, f) == IF f \in DOMAIN h THEN Bytes(h[f]) ELSE Nil
HExists(h, f) == f \in DOMAIN h
HSet(h, f, w) == Put(h, f, w)
HDel(h, f) == Drop(h, {f})

\* RedisMap.__getitem__ and RedisDict.__getitem__: _loads of GET, KeyError
\* when `assert result` fails
map_getitem(key) ==
    LET result == _loads(serialized,
                         Exec(Store, Cmd("GET", get_key(key), <<>>, <<>>, 0)).reply)
    IN  IF ~Truthy(result) THEN KeyError ELSE result

\* RedisHash.__getitem__: _loads of HGET, KeyError when `assert result` fails
hash_getitem(field) ==
    LET result == _loads(serialized, HGet(hash, Encode(field)))
    IN  IF ~Truthy(result) THEN KeyError ELSE result

\* RedisHash.__contains__
hash_contains(field) == HExists(hash, Encode(field))

\* the three mappings
Kinds == {"map", "dict", "hash"}

\* m[key] and `key in m` of the mapping of a kind
GetItem(kind, key) ==
    IF kind = "hash" THEN hash_getitem(key) ELSE map_getitem(key)

Contains(kind, key) ==
    IF kind = "hash" THEN hash_contains(key) ELSE contains(key)

\* the values callers write: a serializer takes 0 and the empty string,
\* without one the values are strs
RoundTripValues(ser) ==
    IF ser THEN {PyStr(<<"x">>), PyStr(<<>>), PyInt(<<"0">>)}
    ELSE {PyStr(<<"x">>), PyStr(<<>>)}

\* the commands of m[key] = value: RedisMap sends SET, RedisDict sends SET
\* and, for a key it does not hold, HINCRBY, in one pipeline
setitem_cmds(kind, key, value) ==
    <<Cmd("SET", get_key(key), Encode(_dumps(serialized, value)), <<>>, 0)>>
    \o (IF kind = "dict" /\ ~contains(key) THEN <<HIncrBy(1)>> ELSE <<>>)

\* the commands of del m[key]
delitem_cmds(kind, key) ==
    <<Cmd("DEL", get_key(key), <<>>, <<>>, 0)>>
    \o (IF kind = "dict" /\ contains(key) THEN <<HIncrBy(0 - 1)>> ELSE <<>>)

\* m[key] = value by the only client: RedisMap.__setitem__,
\* RedisDict.__setitem__ with its pipeline executed, RedisHash.__setitem__
call_map_setitem(kind, key, value) ==
    /\ nops[1] < quota[1]
    /\ nops' = [nops EXCEPT ![1] = @ + 1]
    /\ value \in RoundTripValues(serialized)
    /\ IF kind = "hash"
       THEN /\ hash' = HSet(hash, Encode(key),
                            Encode(_dumps(serialized, value)))
            /\ UNCHANGED <<kv, bucket>>
       ELSE LET r == ExecAll(Store, setitem_cmds(kind, key, value), <<>>)
            IN  /\ kv' = r.st.kv
                /\ bucket' = r.st.bucket
                /\ UNCHANGED hash
    /\ obs' = Obs(kind, key, None, None, None, value, <<>>)
    /\ UNCHANGED <<serialized, lists, pc, loc, pipe, results, quota, cap,
                   hist, sset, tset, zset, reversed, walk>>

\* del m[key] by the only client
call_map_delitem(kind, key) ==
    /\ nops[1] < quota[1]
    /\ nops' = [nops EXCEPT ![1] = @ + 1]
    /\ IF kind = "hash"
       THEN /\ hash' = HDel(hash, Encode(key))
            /\ UNCHANGED <<kv, bucket>>
       ELSE LET r == ExecAll(Store, delitem_cmds(kind, key), <<>>)
            IN  /\ kv' = r.st.kv
                /\ bucket' = r.st.bucket
                /\ UNCHANGED hash
    /\ obs' = Obs("del", key, None, None, None, None, <<>>)
    /\ UNCHANGED <<serialized, lists, pc, loc, pipe, results, quota, cap,
                   hist, sset, tset, zset, reversed, walk>>

RoundTripNext ==
    \/ \E kind \in Kinds, key \in PyKeys, value \in RoundTripValues(TRUE) :
          call_map_setitem(kind, key, value)
    \/ \E kind \in Kinds, key \in PyKeys : call_map_delitem(kind, key)

\* cleared mappings written and read by client 1
SpecRoundTrip == InitDict /\ [][RoundTripNext]_vars

\* C20: m[k] = v followed by m[k] returns v and no KeyError, for every value
\* the serializer takes, 0 and the empty string included; `k in m` is true
\* exactly when m[k] does not raise KeyError
C20_RoundTrip ==
    /\ [][\A kind \in Kinds, key \in PyKeys :
              (obs'.op = kind /\ obs'.m = key)
              => GetItem(kind, key)' = obs'.ret]_vars
    /\ [](\A kind \in Kinds, key \in PyKeys :
             Contains(kind, key) <=> GetItem(kind, key) # KeyError)

----------------------------------------------------------------------------
(* get with a default: RedisMap.get, RedisHash.get *)

\* BaseRedisStructure._default of a RedisMap, RedisDict or RedisHash
_default == None

\* RedisMap.get (RedisDict inherits it) and RedisHash.get: self[key], and
\* `default or self._default` on KeyError
map_get(kind, key, default) ==
    IF GetItem(kind, key) = KeyError
    THEN (IF Truthy(default) THEN default ELSE _default)
    ELSE GetItem(kind, key)

\* the defaults callers supply: none, a str, the empty str and 0
Defaults == {None, PyStr(<<"y">>), PyStr(<<>>), PyInt(<<"0">>)}

\* m.get(key, default) by the only client: one GET or HGET, nothing written
call_map_get(kind, key, default) ==
    /\ obs' = Obs("get", key, default, PyStr(<<kind>>), None,
                  map_get(kind, key, default), <<>>)
    /\ UNCHANGED <<serialized, kv, bucket, lists, pc, loc, pipe, results,
                   nops, quota, cap, hist, hash, sset, tset, zset, reversed, walk>>

GetNext ==
    \/ RoundTripNext
    \/ \E kind \in Kinds, key \in PyKeys, default \in Defaults :
          call_map_get(kind, key, default)

\* cleared mappings written, deleted from and read with get by client 1
SpecGet == InitDict /\ [][GetNext]_vars

\* the value the store holds for a key of a mapping, as _loads returns it
Stored(kind, key) ==
    _loads(serialized,
           IF kind = "hash" THEN HGet(hash, Encode(key))
           ELSE Exec(Store, Cmd("GET", get_key(key), <<>>, <<>>, 0)).reply)

\* C21: get(k, default) returns the stored value when k is present and the
\* supplied default when k is absent, for every default supplied; get does
\* not modify the store
C21_GetDefault ==
    /\ [](\A kind \in Kinds, key \in PyKeys, default \in Defaults :
             map_get(kind, key, default) =
                 IF Contains(kind, key) THEN Stored(kind, key) ELSE default)
    /\ [][obs'.op = "get" => UNCHANGED <<kv, bucket, hash>>]_vars

----------------------------------------------------------------------------
(* incr and decr: RedisMap, RedisDict, RedisHash *)

\* highest amount callers increment or decrement by
MaxBy == 2

\* the integer a stored text stands for
IntOf(w) == IF w[1] = "-" THEN 0 - Num(Tail(w)) ELSE Num(w)

\* INCRBY key by (DECRBY is INCRBY of the negated amount): an absent key
\* counts from 0, a value that is not an integer is an error
IncrBy(st, key, by) ==
    IF key \in DOMAIN st.kv /\ ~IsInt(st.kv[key])
    THEN [st |-> st, reply |-> ErrRep]
    ELSE LET new == (IF key \in DOMAIN st.kv THEN IntOf(st.kv[key]) ELSE 0)
                    + by
         IN  [st |-> [st EXCEPT !.kv = Put(st.kv, key, IntText(new)),
                                !.lists = Drop(st.lists, {key})],
              reply |-> IntRep(new)]

\* HINCRBY on the hash of the RedisHash
HIncrByField(h, f, by) ==
    IF f \in DOMAIN h /\ ~IsInt(h[f])
    THEN [h |-> h, reply |-> ErrRep]
    ELSE LET new == (IF f \in DOMAIN h THEN IntOf(h[f]) ELSE 0) + by
         IN  [h |-> Put(h, f, IntText(new)), reply |-> IntRep(new)]

\* what the client returns for an integer reply
IntReply(reply) ==
    IF reply.t = "error" THEN Error ELSE PyInt(IntText(reply.n))

\* RedisMap.incr (INCRBY), RedisDict.incr (INCRBY, and HINCRBY of the bucket
\* field by 1 for a key the dict does not hold, in one pipeline) and
\* RedisHash.incr (HINCRBY): the stores afterwards and the value returned
map_incr(kind, key, by) ==
    IF kind = "hash"
    THEN LET r == HIncrByField(hash, Encode(key), by)
         IN  [kv |-> kv, bucket |-> bucket, hash |-> r.h,
              ret |-> IntReply(r.reply)]
    ELSE LET r == IncrBy(Store, get_key(key), by)
             b == IF kind = "dict" /\ ~contains(key)
                  THEN Exec(r.st, HIncrBy(1)).st.bucket
                  ELSE r.st.bucket
         IN  [kv |-> r.st.kv, bucket |-> b, hash |-> hash,
              ret |-> IntReply(r.reply)]

\* RedisMap.decr (DECRBY; RedisDict inherits it) and RedisHash.decr
\* (HINCRBY of by * -1)
map_decr(kind, key, by) ==
    IF kind = "hash"
    THEN LET r == HIncrByField(hash, Encode(key), by * (0 - 1))
         IN  [kv |-> kv, bucket |-> bucket, hash |-> r.h,
              ret |-> IntReply(r.reply)]
    ELSE LET r == IncrBy(Store, get_key(key), 0 - by)
         IN  [kv |-> r.st.kv, bucket |-> r.st.bucket, hash |-> hash,
              ret |-> IntReply(r.reply)]

\* the amounts callers pass
Amounts == 1..MaxBy

\* m.incr(key, by) and m.decr(key, by) by the only client
call_map_incr(kind, op, key, by) ==
    LET r == IF op = "incr" THEN map_incr(kind, key, by)
             ELSE map_decr(kind, key, by)
    IN  /\ nops[1] < quota[1]
        /\ nops' = [nops EXCEPT ![1] = @ + 1]
        /\ kv' = r.kv
        /\ bucket' = r.bucket
        /\ hash' = r.hash
        /\ obs' = Obs(op, key, PyInt(IntText(by)), PyStr(<<kind>>), None,
                      r.ret, <<>>)
        /\ UNCHANGED <<serialized, lists, pc, loc, pipe, results, quota, cap,
                       hist, sset, tset, zset, reversed, walk>>

IncrNext ==
    \E kind \in Kinds, op \in {"incr", "decr"}, key \in PyKeys,
       by \in Amounts : call_map_incr(kind, op, key, by)

\* cleared mappings whose keys client 1 increments and decrements
SpecIncr == InitDict /\ [][IncrNext]_vars

\* the number a key of a mapping holds, 0 when the key is absent
Held(kind, key) ==
    IF ~Contains(kind, key) THEN 0
    ELSE IF kind = "hash" THEN IntOf(hash[Encode(key)])
    ELSE IntOf(kv[get_key(key)])

\* a number as m[k] is to return it: the number with a serializer, its
\* canonical text without
Shown(n) == IF serialized THEN PyInt(IntText(n)) ELSE PyStr(IntText(n))

\* C22: from an absent key on, each incr(k, a) and decr(k, b) returns the
\* net sum of the increments minus the decrements so far, and m[k] then
\* reads that sum, zero and negative sums included
C22_IncrDecrSum ==
    [][\A kind \in Kinds, key \in PyKeys, by \in Amounts :
          (/\ obs'.op \in {"incr", "decr"}
           /\ obs'.m = key
           /\ obs'.a = PyInt(IntText(by))
           /\ obs'.b = PyStr(<<kind>>))
          => LET n == Held(kind, key)
                      + (IF obs'.op = "incr" THEN by ELSE 0 - by)
             IN  /\ obs'.ret = PyInt(IntText(n))
                 /\ GetItem(kind, key)' = Shown(n)]_vars

----------------------------------------------------------------------------
(* RedisDefaultDict *)

\* dict()
EmptyDict == [t |-> "dict", s |-> <<>>]

\* RedisDefaultDict.__init__: self._default = default or dict()
dd_default(given) == IF Truthy(given) THEN given ELSE EmptyDict

\* get with the branches of RedisDict.__getitem__
dd_get_keyerror(given, key, default) ==
    LET result == _loads(serialized,
                         Exec(Store, Cmd("GET", get_key(key), <<>>, <<>>, 0)).reply)
    IN  IF ~Truthy(result) THEN KeyError ELSE result

\* RedisDefaultDict.get on an instance constructed with default=given:
\* _loads of GET, and `default or self._default` when `assert result` fails
dd_get(given, key, default) ==
    LET result == _loads(serialized,
                         Exec(Store, Cmd("GET", get_key(key), <<>>, <<>>, 0)).reply)
    IN  IF ~Truthy(result)
        THEN (IF Truthy(default) THEN default ELSE dd_default(given))
        ELSE result

\* RedisDefaultDict.__getitem__: self.get(key)
dd_getitem(given, key) == dd_get(given, key, None)

\* the defaults instances are constructed with: none, or a str
Givens == {None, PyStr(<<"y">>)}

\* d[key] by the only client on an instance constructed with default=given
call_dd_getitem(given, key) ==
    /\ obs' = Obs("dd_getitem", key, given, None, None,
                  dd_getitem(given, key), <<>>)
    /\ UNCHANGED <<serialized, kv, bucket, lists, pc, loc, pipe, results,
                   nops, quota, cap, hist, hash, sset, tset, zset, reversed, walk>>

DefaultNext ==
    \/ RoundTripNext
    \/ \E given \in Givens, key \in PyKeys : call_dd_getitem(given, key)

\* a cleared default dict written, deleted from and read by client 1
SpecDefault == InitDict /\ [][DefaultNext]_vars

----------------------------------------------------------------------------
(* Two RedisDict instances counted in one bucket *)

\* RedisDict("e", prefix="rs:dict").key_prefix: another dict under the same
\* prefix, whose _bucket_key is the bucket key of the first
foreign_key_prefix == <<"r", "s", ":", "d", "i", "c", "t", ":", "e">>

\* RedisDict.size of the other dict
foreign_size ==
    IF foreign_key_prefix \in DOMAIN bucket THEN bucket[foreign_key_prefix]
    ELSE 0

\* RedisDict.incr by a client that runs no other call
dict_incr(key, by) ==
    /\ pc[1] = "idle"
    /\ call_map_incr("dict", "incr", key, by)

\* the store holds the other dict with one element, or does not hold it
InitShared ==
    /\ serialized \in BOOLEAN
    /\ InitAdapters
    /\ \/ /\ kv = EmptyFn
          /\ bucket = EmptyFn
       \/ /\ kv = Put(EmptyFn, foreign_key, <<"x">>)
          /\ bucket = Put(EmptyFn, foreign_key_prefix, 1)
    /\ lists = EmptyFn
    /\ pc = [c \in Clients |-> "idle"]
    /\ loc = [c \in Clients |-> NoLoc]
    /\ pipe = [c \in Clients |-> NoPipe]
    /\ results = [c \in Clients |-> <<>>]
    /\ nops = [c \in Clients |-> 0]
    /\ cap = [len |-> 0, values |-> 0]
    /\ hist = NoHist
    /\ quota = [c \in Clients |-> IF c = 1 THEN MaxOps ELSE 0]

SharedNext ==
    \/ DictClearNext
    \/ \E key \in PyKeys, by \in Amounts : dict_incr(key, by)

\* set, delete, update, incr and clear on one of two dicts of a bucket
SpecShared == InitShared /\ [][SharedNext]_vars

\* C24: every set, delete, update, incr and clear on a dict changes, in the
\* bucket it shares with a dict of another Key Prefix, only the field named
\* by its own Key Prefix, and leaves the other dict's len() unchanged
C24_BucketIsolation ==
    [][/\ \A f \in ((DOMAIN bucket) \cup (DOMAIN bucket')) \ {dict_key_prefix} :
             /\ f \in DOMAIN bucket
             /\ f \in DOMAIN bucket'
             /\ bucket'[f] = bucket[f]
       /\ foreign_size' = foreign_size]_vars

\* the dict was cleared after it had counted elements while the other dict
\* is counted in the same bucket
C24_Witness ==
    /\ foreign_size = 1
    /\ loc[1].op = "clear"
    /\ pc[1] = "idle"
    /\ nops[1] > 1
    /\ dict_key_prefix \notin DOMAIN bucket

----------------------------------------------------------------------------
(* Key prefixes of several instances in one store *)

\* str.rstrip(":")
RECURSIVE RStrip(_)
RStrip(w) ==
    IF w # <<>> /\ w[Len(w)] = ":" THEN RStrip(SubSeq(w, 1, Len(w) - 1))
    ELSE w

\* BaseRedisStructure.key_prefix of an instance constructed with name and
\* prefix: "{}:{}".format(self.prefix.rstrip(":"), self.name).rstrip(":"),
\* where __init__ has stripped the prefix already
key_prefix(prefix, name) == RStrip(RStrip(RStrip(prefix)) \o <<":">> \o name)

\* RedisMap.get_key of the instance
get_key_of(inst, key) == key_prefix(inst.prefix, inst.name) \o <<":">> \o key

\* the instances of the store: a namespace and a structure name each
Instances ==
    {[prefix |-> <<"p">>, name |-> <<"a">>],
     [prefix |-> <<"p">>, name |-> <<"a", ":", "b">>],
     [prefix |-> <<"p", ":", "a">>, name |-> <<"b">>],
     [prefix |-> <<"p", ":">>, name |-> <<"c">>]}

\* the element keys callers use
KeyTexts == {<<"k">>, <<"b", ":", "k">>}

\* the table SCAN walks when several instances write the store
InstanceSlots ==
    <<<<"p", ":", "a", ":", "k">>, <<"p", ":", "a", ":", "b", ":", "k">>,
      <<"p", ":", "c", ":", "k">>, <<"p", ":", "a", ":", "b", ":", "b", ":", "k">>,
      <<"p", ":", "c", ":", "b", ":", "k">>>>

\* the keys a complete cursor pass of RedisMap.scan with match="*" returns on
\* an unchanged store: the keys present that "<key_prefix>:*" matches
inst_scan(inst) ==
    SelectSeq(InstanceSlots,
              LAMBDA k : k \in DOMAIN kv
                         /\ Matches(k, key_prefix(inst.prefix, inst.name)))

\* RedisMap.iter: the scanned keys without the first "<key_prefix>:"
inst_iter(inst) ==
    LET keys == inst_scan(inst)
    IN  [i \in 1..Len(keys) |->
            Replace1(keys[i], key_prefix(inst.prefix, inst.name) \o <<":">>)]

\* inst[key] = value, the value naming the instance that writes
call_inst_setitem(inst, key) ==
    /\ kv' = Put(kv, get_key_of(inst, key),
                 key_prefix(inst.prefix, inst.name))
    /\ obs' = Obs("setitem", PyStr(key_prefix(inst.prefix, inst.name)),
                  PyStr(key), None, None, None, <<>>)
    /\ UNCHANGED <<serialized, bucket, lists, pc, loc, pipe, results, nops,
                   quota, cap, hist, hash, sset, tset, zset, reversed, walk>>

\* list(inst.iter()) on a store no other client writes meanwhile
call_inst_iter(inst) ==
    /\ obs' = Obs("iter", PyStr(key_prefix(inst.prefix, inst.name)),
                  None, None, None, None, inst_iter(inst))
    /\ UNCHANGED <<serialized, kv, bucket, lists, pc, loc, pipe, results,
                   nops, quota, cap, hist, hash, sset, tset, zset, reversed, walk>>

\* inst.clear() on a store no other client writes meanwhile: DEL of every
\* page of the pass
call_inst_clear(inst) ==
    /\ kv' = Drop(kv, {inst_scan(inst)[i] : i \in 1..Len(inst_scan(inst))})
    /\ obs' = Obs("clear", PyStr(key_prefix(inst.prefix, inst.name)),
                  None, None, None, None, <<>>)
    /\ UNCHANGED <<serialized, bucket, lists, pc, loc, pipe, results, nops,
                   quota, cap, hist, hash, sset, tset, zset, reversed, walk>>

InstanceNext ==
    \/ \E inst \in Instances, key \in KeyTexts : call_inst_setitem(inst, key)
    \/ \E inst \in Instances : call_inst_iter(inst)
    \/ \E inst \in Instances : call_inst_clear(inst)

\* maps of several namespaces and names written, listed and cleared
SpecInstances == InitDict /\ [][InstanceNext]_vars

\* C25: when instances have distinct Key Prefixes, no key written for an
\* element of one is matched by the pattern of another, clear() of an
\* instance deletes none but its own elements and iter() reports none but
\* its own
C25_KeySpaceDisjoint ==
    /\ [](\A k \in DOMAIN kv, inst \in Instances :
             kv[k] # key_prefix(inst.prefix, inst.name)
             => ~Matches(k, key_prefix(inst.prefix, inst.name)))
    /\ [][/\ obs'.op = "clear"
             => \A k \in (DOMAIN kv) \ (DOMAIN kv') : kv[k] = obs'.m.s
          /\ obs'.op = "iter"
             => \A i \in 1..Len(obs'.list) :
                   /\ obs'.m.s \o <<":">> \o obs'.list[i] \in DOMAIN kv
                   /\ kv[obs'.m.s \o <<":">> \o obs'.list[i]] = obs'.m.s]_vars

----------------------------------------------------------------------------
(* The bucket key of a RedisDict *)

\* highest size_mod an instance is constructed with
MaxSizeMod == 7
\* number of key-prefix hashes drawn
MaxHashes == 40
\* distance of the hashes drawn; md5 is not computed, its value is an input
HashStep == 250117

\* abs(int(md5(key_prefix).hexdigest(), 16)) of the key prefixes drawn
Hashes == {i * HashStep : i \in 0..MaxHashes} \cup {999, 1000, 1001, 1999}

SizeMods == 1..MaxSizeMod

\* BaseRedisStructure._hashed_key of a key prefix whose md5 is h
_hashed_key(h, size_mod) == h % (10 ^ size_mod)

\* the number RedisDict._bucket_key puts after "{prefix}.size."
bucket_shard(h, size_mod) ==
    IF _hashed_key(h, size_mod) > 1000
    THEN _hashed_key(h, size_mod) \div 1000
    ELSE _hashed_key(h, size_mod)

\* d._bucket_key is read on an instance with this hash and size_mod
call_bucket_key(h, size_mod) ==
    /\ obs' = Obs("_bucket_key", PyInt(IntText(h)), PyInt(IntText(size_mod)),
                  None, None, PyInt(IntText(bucket_shard(h, size_mod))), <<>>)
    /\ UNCHANGED <<serialized, kv, bucket, lists, pc, loc, pipe, results,
                   nops, quota, cap, hist, hash, sset, tset, zset, reversed, walk>>

BucketNext ==
    \E h \in Hashes, size_mod \in SizeMods : call_bucket_key(h, size_mod)

\* bucket keys computed for instances of several hashes and size_mods
SpecBucket == InitDict /\ [][BucketNext]_vars

\* the shards the values that are not collapsed take
ShardCap == 1000

\* C26: the shard of hash h >= 0 under sizeMod >= 1 is s = h mod 10^sizeMod
\* when s <= 1000 and floor(s / 1000) otherwise; it is not negative, and it
\* stays within a range that does not depend on sizeMod
C26_ShardArithmetic ==
    obs.op = "_bucket_key"
    => LET h == IntOf(obs.m.s)
           s == h % (10 ^ IntOf(obs.a.s))
           shard == IntOf(obs.ret.s)
       IN  /\ shard = (IF s <= 1000 THEN s ELSE s \div 1000)
           /\ shard >= 0
           /\ shard <= ShardCap

----------------------------------------------------------------------------
(* Reading a RedisList: iter, __getitem__, index, count, __contains__ *)

\* highest count callers pass to iter()
MaxCount == 3

\* iter moving its window by count
iter_advance_by_count(start, n) == start + n

\* RedisList.iter: start += (count + 1), and stop likewise
iter_advance(start, n) == start + n + 1

\* RedisList.iter(start, count) run to its end on a list nobody writes
\* meanwhile: LRANGE start start+count until a range comes back empty; the
\* values yielded and the number of ranges read
RECURSIVE list_iter(_, _)
list_iter(start, n) ==
    LET cursor == Run(Cmd("LRANGE", list_key_prefix, <<>>, start + n,
                          start)).reply.s
        rest == list_iter(iter_advance(start, n), n)
    IN  IF cursor = <<>> THEN [out |-> <<>>, reads |-> 1]
        ELSE [out |-> Loaded(serialized, cursor) \o rest.out,
              reads |-> rest.reads + 1]

\* count=1000 of iter(), which __iter__ and index() use
iter_count == PageSize

\* index with positions counted from 1
list_index_from_one(item) ==
    LET out == list_iter(0, iter_count).out
        at == {i \in 1..Len(out) : out[i] = item}
    IN  IF at = {} THEN None
        ELSE PyInt(IntText(CHOOSE i \in at : \A j \in at : i <= j))

\* RedisList.index: the first i of enumerate(self.iter()) whose value equals
\* item, None when the loop ends
list_index(item) ==
    LET out == list_iter(0, iter_count).out
        at == {i \in 1..Len(out) : out[i] = item}
    IN  IF at = {} THEN None
        ELSE PyInt(IntText((CHOOSE i \in at : \A j \in at : i <= j) - 1))

\* RedisList.count: the values of `for x in self` equal to value
list_count(value) ==
    LET out == list_iter(0, iter_count).out
    IN  PyInt(IntText(Cardinality({i \in 1..Len(out) : out[i] = value})))

\* RedisList.__contains__
list_contains(item) == IF list_index(item) = None THEN False ELSE True

\* RedisList.__getitem__ with a slice: start = index.start or 0,
\* stop = (index.stop or 0) - 1, then LRANGE
list_getitem_slice(a, b) ==
    LET start == IF a.t = "none" \/ a.n = 0 THEN 0 ELSE a.n
        stop == (IF b.t = "none" \/ b.n = 0 THEN 0 ELSE b.n) - 1
    IN  Loaded(serialized,
               Run(Cmd("LRANGE", list_key_prefix, <<>>, stop, start)).reply.s)

\* the values callers look for and remove
SearchValues == AllListValues \cup {PyStr(<<"z">>)}

\* a call that reads the list returns
list_read(o) ==
    /\ obs' = o
    /\ UNCHANGED <<serialized, kv, bucket, lists, pc, loc, pipe, results,
                   nops, quota, cap, hist, hash, sset, tset, zset, reversed, walk>>

\* list(l.iter(0, n))
call_list_iter(n) ==
    list_read(Obs("iter", None, PyInt(IntText(n)), None, None,
                  PyInt(IntText(list_iter(0, n).reads)), list_iter(0, n).out))

\* l[index]
call_list_getitem(index) ==
    list_read(Obs("getitem", None, Bound(index), None, None, getitem(index),
                  <<>>))

\* l[a:b]
call_list_slice(a, b) ==
    list_read(Obs("slice", None, a, b, None, None, list_getitem_slice(a, b)))

\* l.index(item), l.count(item) and `item in l`
call_list_search(op, item) ==
    list_read(Obs(op, item, None, None, None,
                  CASE op = "index" -> list_index(item)
                    [] op = "count" -> list_count(item)
                    [] op = "contains" -> list_contains(item),
                  <<>>))

\* l.remove(item)
call_list_remove(item) ==
    /\ Commit(remove(item))
    /\ obs' = Obs("remove", item, None, None, None, None, <<>>)
    /\ UNCHANGED <<serialized, pc, loc, pipe, results, nops, quota, cap,
                   hist, hash, sset, tset, zset, reversed, walk>>

ListReadNext ==
    \/ \E n \in 1..MaxCount : call_list_iter(n)
    \/ \E index \in (0 - Len(TheList))..(Len(TheList) - 1) :
          call_list_getitem(index)
    \/ \E a \in SliceBounds, b \in SliceBounds : call_list_slice(a, b)
    \/ \E op \in {"index", "count", "contains"}, item \in SearchValues :
          call_list_search(op, item)
    \/ \E item \in SearchValues : call_list_remove(item)

\* a list of at most MaxLen elements read and searched by one client
SpecListRead ==
    InitList(MaxLen + 1, 2, [c \in Clients |-> 0]) /\ [][ListReadNext]_vars

\* the values of the list as _loads returns them
Values == Loaded(serialized, TheList)

\* C27: on a list that is not written during the pass, iter(0, c) yields every
\* element once and in list order for every c >= 1, and ends with the first
\* range that comes back empty
C27_ListIter ==
    [][obs'.op = "iter"
       => LET page == IntOf(obs'.a.s) + 1
          IN  /\ obs'.list = Values
              /\ IntOf(obs'.ret.s) = (Len(Values) + page - 1) \div page + 1]_vars

\* a list of four elements was iterated with count 1: two full pages and the
\* empty range that ends the pass
C27_Witness ==
    /\ obs.op = "iter"
    /\ obs.a = PyInt(<<"1">>)
    /\ obs.ret = PyInt(<<"3">>)
    /\ Len(obs.list) = 4
    /\ obs.list[2] # obs.list[3]

----------------------------------------------------------------------------
(* Properties of list reads *)

\* C28: l[a:b] is the list Python's slicing of the stored sequence gives for
\* all bounds that are integers or omitted, l[i] for a valid i is the element
\* at that position, and neither modifies the list
C28_ListSlice ==
    [][/\ obs'.op = "slice"
          => /\ obs'.list = PySlice(Values, obs'.a, obs'.b)
             /\ lists' = lists
       /\ obs'.op = "getitem"
          => /\ obs'.ret = Values[IF obs'.a.n < 0 THEN Len(Values) + obs'.a.n + 1
                                  ELSE obs'.a.n + 1]
             /\ lists' = lists]_vars

\* position, counted from 0, of the first of the values equal to x
FirstIndex(x) ==
    CHOOSE i \in 0..(Len(Values) - 1) :
        /\ Values[i + 1] = x
        /\ \A j \in 0..(i - 1) : Values[j + 1] # x

----------------------------------------------------------------------------
(* Store-side expiration of an element key of a RedisDict *)

\* the store expires an element key while no call is running: the key had a
\* time to live (EXPIRE by another program, psetex) and is gone; nothing else
\* changes
store_expire(key) ==
    /\ AllIdle
    /\ obs.op # "expire"
    /\ get_key(key) \in DOMAIN kv
    /\ kv' = Drop(kv, {get_key(key)})
    /\ obs' = Obs("expire", PyStr(get_key(key)), None, None, None, None, <<>>)
    /\ UNCHANGED <<serialized, bucket, lists, pc, loc, pipe, results, nops,
                   quota, cap, hist, hash, sset, tset, zset, reversed, walk>>

\* the callers do not use the key that expired
OtherKey(key) == obs.op = "expire" => get_key(key) # obs.m.s

\* set, delete and update of other keys by client 1, and one expiration
ExpiryNext ==
    \/ \E key \in PyKeys, value \in DictValues :
          OtherKey(key) /\ dict_setitem(1, key, value)
    \/ \E key \in PyKeys : OtherKey(key) /\ dict_delitem(1, key)
    \/ dict_update_empty(1)
    \/ \E data \in Mappings :
          /\ \A i \in 1..Len(data) : OtherKey(data[i].k)
          /\ dict_update_exists(1, data)
    \/ dict_update_mset(1)
    \/ pipe_execute(1)
    \/ \E key \in PyKeys : store_expire(key)

SpecExpiry == InitDict /\ [][ExpiryNext]_vars

\* C30: after an element key of the dict expired in the store, len() stays
\* above the number of keys present through every later set, delete and
\* update of other keys
C30_ExpiryNotCounted ==
    (obs.op = "expire" /\ AllIdle) => size > Cardinality(Present)

----------------------------------------------------------------------------
(* RedisSet.update *)

\* longest collection callers pass to update()
MaxMembers == 2

\* the two RedisSet instances of the store
SetNames == {"s", "t"}

\* the stored members of the set of an instance
SetAt(name) == IF name = "s" THEN sset ELSE tset

\* SCARD: RedisSet.size
set_size(name) == Cardinality(SetAt(name))

\* SADD key members: the set afterwards and the number of members added
SAdd(set, ws) ==
    LET new == set \cup {ws[i] : i \in 1..Len(ws)}
    IN  [set |-> new, reply |-> IntRep(Cardinality(new) - Cardinality(set))]

\* RedisSet.unionstore(destination, *others) of the instance self:
\* SUNIONSTORE destination self.key_prefix others, which replies the number
\* of members of the resulting set
set_unionstore(self, destination, other) ==
    LET new == SetAt(self) \cup SetAt(other)
    IN  [s |-> IF destination = "s" THEN new ELSE sset,
         t |-> IF destination = "t" THEN new ELSE tset,
         reply |-> IntRep(Cardinality(new))]

\* update with another RedisSet that returns what unionstore returns
set_update_set_unsubtracted(self, other) ==
    LET r == set_unionstore(self, self, other)
    IN  [s |-> r.s, t |-> r.t, ret |-> PyInt(IntText(r.reply.n))]

\* RedisSet.update with a RedisSet: size = self.size, then
\* unionstore(self.key_prefix, members.key_prefix) - size
set_update_set(self, other) ==
    LET before == set_size(self)
        r == set_unionstore(self, self, other)
    IN  [s |-> r.s, t |-> r.t, ret |-> PyInt(IntText(r.reply.n - before))]

\* RedisSet.update with a plain collection: the members through _dumps when
\* the instance is serialized, then one SADD, 0 for an empty collection
set_update(self, members) ==
    LET ws == [i \in 1..Len(members) |->
                  IF serialized THEN Wire(serialized, members[i])
                  ELSE Encode(members[i])]
        r == SAdd(SetAt(self), ws)
    IN  IF members = <<>>
        THEN [s |-> sset, t |-> tset, ret |-> PyInt(<<"0">>)]
        ELSE [s |-> IF self = "s" THEN r.set ELSE sset,
              t |-> IF self = "t" THEN r.set ELSE tset,
              ret |-> PyInt(IntText(r.reply.n))]

\* the members callers add
SetValues == ListValues(serialized, 2) \cup {PyStr(<<"c">>)}

\* self.update(members) by the only client
call_set_update(self, members) ==
    LET r == set_update(self, members)
    IN  /\ sset' = r.s
        /\ tset' = r.t
        /\ obs' = Obs("update", PyStr(<<self>>), None, None, None, r.ret,
                      members)
        /\ UNCHANGED <<serialized, kv, bucket, lists, pc, loc, pipe, results,
                       nops, quota, cap, hist, hash, zset, reversed, walk>>

\* self.update(other) with a RedisSet by the only client
call_set_update_set(self, other) ==
    LET r == set_update_set(self, other)
    IN  /\ sset' = r.s
        /\ tset' = r.t
        /\ obs' = Obs("update_set", PyStr(<<self>>), PyStr(<<other>>), None,
                      None, r.ret, <<>>)
        /\ UNCHANGED <<serialized, kv, bucket, lists, pc, loc, pipe, results,
                       nops, quota, cap, hist, hash, zset, reversed, walk>>

SetNext ==
    \/ \E self \in SetNames, members \in SeqsUpTo(SetValues, MaxMembers) :
          call_set_update(self, members)
    \/ \E self \in SetNames, other \in SetNames :
          call_set_update_set(self, other)

\* two empty sets updated by one client
SpecSet == InitDict /\ [][SetNext]_vars

\* C31: s.update(t) with a RedisSet t makes s the union of the previous s
\* and t, leaves t as it was and returns the number of members s gained;
\* update with a plain collection adds every member and returns the number
\* of members gained
C31_SetUpdate ==
    [][\A self \in SetNames, other \in SetNames :
          /\ (obs'.op = "update_set" /\ obs'.m = PyStr(<<self>>)
                                     /\ obs'.a = PyStr(<<other>>))
             => /\ SetAt(self)' = SetAt(self) \cup SetAt(other)
                /\ SetAt(other)' = IF other = self THEN SetAt(self)'
                                   ELSE SetAt(other)
                /\ IntOf(obs'.ret.s) = set_size(self)' - set_size(self)
          /\ (obs'.op = "update" /\ obs'.m = PyStr(<<self>>) /\ other # self)
             => /\ SetAt(self)' =
                      SetAt(self) \cup {Wire(serialized, obs'.list[i]) :
                                           i \in 1..Len(obs'.list)}
                /\ SetAt(other)' = SetAt(other)
                /\ IntOf(obs'.ret.s) = set_size(self)' - set_size(self)]_vars

\* s gained one member from a set t of two members, one of which s held
C31_Witness ==
    /\ obs.op = "update_set"
    /\ obs.m = PyStr(<<"s">>)
    /\ obs.a = PyStr(<<"t">>)
    /\ obs.ret = PyInt(<<"1">>)
    /\ set_size("s") = 3
    /\ set_size("t") = 2

----------------------------------------------------------------------------
(* Iteration with a pattern: RedisMap, RedisDict, RedisHash, RedisSet *)

\* MATCH: a glob pattern of literal characters and "*" against a text
RECURSIVE GlobMatch(_, _)
GlobMatch(p, w) ==
    IF p = <<>> THEN w = <<>>
    ELSE IF p[1] = "*"
    THEN IF GlobMatch(Tail(p), w) THEN TRUE
         ELSE IF w = <<>> THEN FALSE ELSE GlobMatch(p, Tail(w))
    ELSE IF w = <<>> THEN FALSE
    ELSE w[1] = p[1] /\ GlobMatch(Tail(p), Tail(w))

\* the patterns callers pass
Patterns == {<<"*">>, <<"a", "*">>, <<"1">>}

\* the collections that iterate with a pattern
MatchKinds == {"map", "dict", "hash", "set"}

\* list(x.iter(match=p)) on a collection nobody writes meanwhile.
\* RedisMap.iter (RedisDict inherits it): scan_iter with
\* match="<key_prefix>:<p>", the key prefix replaced in every key;
\* RedisHash.iter: hscan_iter with match=p, the fields decoded;
\* RedisSet.iter: sscan_iter with match="*", the members through _loads
iter_match(kind, p) ==
    IF kind = "hash"
    THEN LET fields == SelectSeq(FieldSlots,
                                 LAMBDA f : f \in DOMAIN hash /\ GlobMatch(p, f))
         IN  [i \in 1..Len(fields) |-> _decode(fields[i])]
    ELSE IF kind = "set"
    THEN LET members == SelectSeq(MemberSlots(serialized),
                                  LAMBDA m : m \in sset
                                             /\ GlobMatch(<<"*">>, m))
         IN  [i \in 1..Len(members) |-> _loads(serialized, Bytes(members[i]))]
    ELSE LET keys == SelectSeq(Slots,
                               LAMBDA k : k \in DOMAIN kv
                                          /\ GlobMatch(dict_key_prefix
                                                       \o <<":">> \o p, k))
         IN  [i \in 1..Len(keys) |->
                 PyStr(Replace1(_decode(keys[i]).s, dict_key_prefix \o <<":">>))]

call_iter_match(kind, p) ==
    /\ obs' = Obs("iter_match", PyStr(<<kind>>), PyStr(p), None, None, None,
                  iter_match(kind, p))
    /\ UNCHANGED <<serialized, kv, bucket, lists, pc, loc, pipe, results,
                   nops, quota, cap, hist, hash, sset, tset, zset, reversed,
                   walk>>

MatchNext ==
    \E kind \in MatchKinds, p \in Patterns : call_iter_match(kind, p)

\* collections nobody writes, iterated with patterns
SpecMatch == InitPass /\ [][MatchNext]_vars

\* the keys, fields or members a collection holds, as iter() yields them
Held32(kind) ==
    IF kind = "hash" THEN {_decode(f) : f \in DOMAIN hash}
    ELSE IF kind = "set" THEN {_loads(serialized, Bytes(m)) : m \in sset}
    ELSE {PyStr(SubSeq(k, Len(dict_key_prefix) + 2, Len(k))) :
             k \in {x \in DOMAIN kv : Matches(x, dict_key_prefix)}}

\* C32: iter(match=p) yields exactly the elements of the collection whose
\* key or member matches p, each once, for a map, a dict, a hash and a set,
\* and all elements for the pattern "*"
C32_IterMatch ==
    \A kind \in MatchKinds :
       (obs.op = "iter_match" /\ obs.m = PyStr(<<kind>>))
       => /\ {obs.list[i] : i \in 1..Len(obs.list)}
                = {v \in Held32(kind) : GlobMatch(obs.a.s, v.s)}
          /\ \A i, j \in 1..Len(obs.list) :
                i # j => obs.list[i] # obs.list[j]

----------------------------------------------------------------------------
(* Every mutator of a RedisDict used by one client *)

\* `del self[key]` of a RedisDict from pipeline to execute(): DEL, and HINCRBY
\* of the bucket field by -1 when the key is in the dict
dict_del(key) ==
    ExecAll(Store,
            <<Cmd("DEL", get_key(key), <<>>, <<>>, 0)>>
            \o (IF contains(key) THEN <<HIncrBy(-1)>> ELSE <<>>),
            <<>>).st

\* a call of the only client that runs in one piece and leaves st
dict_call(op, key, a, ret, st) ==
    /\ pc[1] = "idle"
    /\ nops[1] < quota[1]
    /\ nops' = [nops EXCEPT ![1] = @ + 1]
    /\ kv' = st.kv
    /\ bucket' = st.bucket
    /\ obs' = Obs(op, key, a, PyStr(<<"dict">>), None, ret, <<>>)
    /\ UNCHANGED <<serialized, lists, pc, loc, pipe, results, quota, cap,
                   hist, hash, sset, tset, zset, reversed, walk>>

\* RedisDict.remove(key): del self[key], a KeyError ignored
dict_remove(key) == dict_call("remove", key, None, None, dict_del(key))

\* RedisMap.pop, which RedisDict inherits: r = self[key], self.remove(key)
dict_pop(key) ==
    IF map_getitem(key) = KeyError
    THEN dict_call("pop", key, None, KeyError, Store)
    ELSE dict_call("pop", key, None, map_getitem(key), dict_del(key))

\* RedisMap.decr, which RedisDict inherits
dict_decr(key, by) ==
    /\ pc[1] = "idle"
    /\ call_map_incr("dict", "decr", key, by)

\* RedisDict.mset is RedisMap.update (`mset = update` in the body of
\* RedisMap): one MSET of the formatted data, nothing for empty data
dict_mset(data) ==
    dict_call("mset", None, PyInt(IntText(Len(data))), None,
              IF data = <<>> THEN Store
              ELSE Exec(Store, Cmd("MSET", <<>>, Formatted(serialized, data),
                                   <<>>, 0)).st)

\* RedisDict.clear(match=p): the keys that match "<key_prefix>:<p>" are
\* deleted and the bucket field is deleted, in one pipeline
dict_clear_match(p) ==
    LET keys == SelectSeq(Slots,
                          LAMBDA k : k \in DOMAIN kv
                                     /\ GlobMatch(dict_key_prefix \o <<":">> \o p,
                                                  k))
        dels == IF keys = <<>> THEN <<>>
                ELSE <<Cmd("DELETE", <<>>, keys, <<>>, 0)>>
    IN  dict_call("clear", None, PyStr(p), True,
                  ExecAll(Store,
                          dels \o <<Cmd("HDEL", dict_key_prefix, <<>>, <<>>, 0)>>,
                          <<>>).st)

MutatorNext ==
    \/ DictNext
    \/ \E key \in PyKeys, by \in Amounts : dict_incr(key, by)
    \/ \E key \in PyKeys, by \in Amounts : dict_decr(key, by)
    \/ \E key \in PyKeys : dict_remove(key)
    \/ \E key \in PyKeys : dict_pop(key)
    \/ \E data \in Mappings : dict_mset(data)
    \/ \E p \in Patterns : dict_clear_match(p)

\* a cleared dict on which client 1 calls every method that writes
SpecMutators == InitDict /\ [][MutatorNext]_vars

\* C33: with a single client, after every call of set, delete, update, mset,
\* incr, decr, pop, remove and clear(match=pattern) has returned, len() is
\* the number of element keys present under the dict's Key Prefix
C33_LenUnderMutators ==
    (pc[1] = "idle" /\ pc[2] = "idle")
    => Cardinality({k \in DOMAIN kv : Matches(k, dict_key_prefix)}) = size

----------------------------------------------------------------------------
(* The bucket counter of a RedisDict written by two clients *)

\* a cleared dict on which one client starts a call more than the other
InitDictRace ==
    /\ InitStore
    /\ quota = [c \in Clients |-> IF c = 1 THEN MaxConcOps + 1 ELSE MaxConcOps]

\* set, delete and update by two clients, their steps interleaved
SpecDictRace == InitDictRace /\ [][DictNext]_vars

\* C34: under every interleaving of set, delete and update calls of two
\* clients on one dict, the bucket counter that len() reads is never less
\* than 0
C34_CounterNotNegative == size >= 0

----------------------------------------------------------------------------
(* insert and pop by two clients on one list *)

\* the list after l.clear(); l.extend([...]) with two different values
Beforehand ==
    IF serialized
    THEN <<Wire(TRUE, PyStr(<<"a">>)), Wire(TRUE, PyInt(<<"1">>))>>
    ELSE <<Wire(FALSE, PyStr(<<"a">>)), Wire(FALSE, PyStr(<<"b">>))>>

\* two clients and the list of two elements; an insert may start on it
InitIndexRace ==
    /\ InitList(Len(Beforehand) + 1, 2, [c \in Clients |-> MaxConcCalls])
    /\ TheList = Beforehand

\* two clients on the list of two different elements, no failure
SpecIndexRace == InitIndexRace /\ [][ListNext]_vars

\* client c returns from its only call, an insert or a pop, after the other
\* client has returned from its only call, an insert or a pop, while the
\* call of c was running; neither call raised
BothReturned(c) ==
    /\ Returns(c)
    /\ pc'[c] = "idle"
    /\ \A d \in Clients \ {c} : pc[d] = "idle" /\ hist.c = d
    /\ \A d \in Clients : nops[d] = 1
    /\ loc[c].op \in {"insert", "pop"}
    /\ hist.op \in {"insert", "pop"}
    /\ hist.ret.t # "error"
    /\ hist'.ret.t # "error"

\* the values the two calls returned from pop
Popped(c) ==
    (IF loc[c].op = "pop" THEN {hist'.ret} ELSE {})
    \cup (IF hist.op = "pop" THEN {hist.ret} ELSE {})

\* C35: two clients run insert(i, v) and/or pop(j) on one list at the same
\* time and no store command fails: once both calls have returned, every
\* element the list held beforehand that no pop returned is in the list, and
\* the value of the insert is in the list
C35_NoElementLost ==
    [][\A c \in Clients :
         BothReturned(c)
         => /\ \A i \in 0..(Len(Beforehand) - 1) :
                  get(Beforehand, i) \notin Popped(c)
                  => \E j \in 0..(Len(TheList') - 1) :
                        TheList'[j + 1] = Beforehand[i + 1]
            /\ loc[c].op = "insert"
               => \E j \in 0..(Len(TheList') - 1) :
                     TheList'[j + 1] = Wire(serialized, loc[c].value)]_vars

\* C36: two clients run insert(i, v) and/or pop(j) on one list at the same
\* time and no store command fails: once both calls have returned the list
\* holds no sentinel
C36_NoResidualSentinel ==
    [][\A c \in Clients : BothReturned(c) => ~HasSentinel(TheList')]_vars

----------------------------------------------------------------------------
(* reverse() while another client adds elements *)

\* the value the writers add: no element of the list beforehand
NewItem == IF serialized THEN PyInt(<<"1">>) ELSE PyStr(<<"b">>)

\* RedisList.push: every item through _dumps when the list is serialized,
\* then one LPUSH, which puts the items in front of the list one by one
push(st, ser, key, items) ==
    LET wires == [i \in 1..Len(items) |->
                     IF ser THEN Wire(ser, items[i]) ELSE Encode(items[i])]
        l == ListAt(st, key)
    IN  [st |-> WithList(st, key, Reverse(wires) \o l),
         reply |-> IntRep(Len(l) + Len(wires))]

\* a call of client c that sends one command and returns
list_write(c, op, r) ==
    /\ CanStart(c)
    /\ Len(TheList) < cap.len
    /\ Counted(c)
    /\ Commit(r)
    /\ hist' = Call(c, op, Returned(r.reply), "client", FALSE, ~hist.tick)
    /\ UNCHANGED <<adapters, serialized, quota, cap, pc, loc, pipe, results>>

\* RedisList.append: rpush(key_prefix, _dumps(item))
list_append(c, item) ==
    list_write(c, "append",
               Run(Cmd("RPUSH", list_key_prefix, <<Wire(serialized, item)>>,
                       <<>>, 0)))

\* RedisList.extend
list_extend(c, items) ==
    list_write(c, "extend", extend(Store, serialized, list_key_prefix, items))

\* RedisList.push
list_push(c, items) ==
    list_write(c, "push", push(Store, serialized, list_key_prefix, items))

ReverseStep(c) ==
    \/ \E n \in RandInts : list_reverse(c, n)
    \/ list_reverse_lrange(c)
    \/ list_reverse_extend(c)
    \/ list_reverse_rename(c)
    \/ list_reverse_clear(c)
    \/ list_append(c, NewItem)
    \/ list_extend(c, <<NewItem>>)
    \/ list_push(c, <<NewItem>>)

ReverseWriteNext == \E c \in Clients : ReverseStep(c)

\* two clients that reverse the list and add the value NewItem to it
SpecReverseWrite ==
    InitList(MaxLen, 1, [c \in Clients |-> MaxConcCalls])
    /\ [][ReverseWriteNext]_vars

\* C37: an element another client added by append, push or extend while
\* reverse() was running is in the list when reverse() returns
C37_ReverseKeepsWrites ==
    [][\A c \in Clients :
         (/\ Returns(c)
          /\ loc[c].op = "reverse"
          /\ hist'.ret.t # "error"
          /\ hist.op \in {"append", "extend", "push"}
          /\ hist.c # c)
         => \E i \in 1..Len(TheList') :
               TheList'[i] = Wire(serialized, NewItem)]_vars

----------------------------------------------------------------------------
(* insert and pop(index) with an index outside the list *)

\* client c returns from insert(index, v) or pop(index) whose index names no
\* position of the list the call found
OutOfRange(c) ==
    /\ Returns(c)
    /\ loc[c].op \in {"insert", "pop"}
    /\ loc[c].given
    /\ Pos(loc[c].before, loc[c].index) = 0

\* C38: insert(index, v) or pop(index) with an index outside the list's
\* range, any index on an empty list included, raises and leaves the list as
\* it was: no sentinel and no new element is written
C38_OutOfRangeRaises ==
    [][\A c \in Clients :
         OutOfRange(c)
         => /\ hist'.ret = Error
            /\ TheList' = loc[c].before
            /\ lists' = lists]_vars

----------------------------------------------------------------------------
(* reversed() of a sorted set *)

\* BaseRedisStructure.__iter__: iter(self.iter())
zset___iter__(rev) == zset_iter(rev, 0, 0 - 1, FALSE, None)

\* RedisSortedSet.__reversed__: iter(self.iter(reverse=True))
zset___reversed__(rev) == zset_iter(rev, 0, 0 - 1, FALSE, True)

\* list(reversed(s))
call_reversed ==
    zset_read(Obs("reversed", None, None, None, None, None,
                  zset___reversed__(reversed)))

ZReversedNext ==
    \/ ZReadNext
    \/ call_reversed

\* the reads of a sorted set nobody writes to, reversed() among them
SpecZReversed == InitZSet /\ [][ZReversedNext]_vars

\* C39: for an instance with either setting of the reversed flag,
\* reversed(s) yields the members in the opposite order of iter(s)
C39_ReversedOpposite ==
    obs.op = "reversed" => obs.list = Reverse(zset___iter__(reversed))

====
